---------------------------- MODULE Spec2Model ----------------------------
(***************************************************************************)
(* DietBuddy Pro: the conversation orchestrator (main.py), the intent      *)
(* classifier and context builders (coach.py) and the SQLite store         *)
(* (database.py), as a state machine.                                      *)
(*                                                                         *)
(* Text is modelled by TLA+ strings; the Python string methods the code    *)
(* uses (lower, strip, split, in, isalpha, title, re.findall) are          *)
(* operators over them.  Pictographs of the literal reply texts are left   *)
(* out of the literals, and SYSTEM_PROMPT is abbreviated.                  *)
(***************************************************************************)
EXTENDS Integers, Sequences, FiniteSets, TLC

VARIABLES users, messages, food_logs, water_logs, clock, nreq, last,
          webhook, response

vars ==
    <<users, messages, food_logs, water_logs, clock, nreq, last, webhook,
      response>>

(***************************************************************************)
(* Python string methods                                                   *)
(***************************************************************************)
UpperLetters == "ABCDEFGHIJKLMNOPQRSTUVWXYZ"

LowerLetters == "abcdefghijklmnopqrstuvwxyz"

DigitChars == "0123456789"

Whitespace == {" ", "\t", "\n", "\r"}

CharAt(s, i) == SubSeq(s, i, i)

IsUpperChar(c) == \E i \in 1..26 : CharAt(UpperLetters, i) = c

IsLowerChar(c) == \E i \in 1..26 : CharAt(LowerLetters, i) = c

\* U+0130, LATIN CAPITAL LETTER I WITH DOT ABOVE, written "^": a letter whose
\* lower() is two code points, "i" and U+0307 (written "~")
CapitalIDot == "^"

CombiningDot == "~"

IsLetter(c) == IsUpperChar(c) \/ IsLowerChar(c) \/ c = CapitalIDot

IsDigit(c) == \E i \in 1..10 : CharAt(DigitChars, i) = c

LowerChar(c) ==
    IF IsUpperChar(c)
    THEN CharAt(LowerLetters, CHOOSE i \in 1..26 : CharAt(UpperLetters, i) = c)
    ELSE IF c = CapitalIDot THEN "i" \o CombiningDot
    ELSE c

UpperChar(c) ==
    IF IsLowerChar(c)
    THEN CharAt(UpperLetters, CHOOSE i \in 1..26 : CharAt(LowerLetters, i) = c)
    ELSE c

RECURSIVE Lower(_)
Lower(s) ==
    IF s = "" THEN ""
    ELSE LowerChar(CharAt(s, 1)) \o Lower(SubSeq(s, 2, Len(s)))

RECURSIVE LStrip(_, _)
LStrip(s, chars) ==
    IF s # "" /\ CharAt(s, 1) \in chars
    THEN LStrip(SubSeq(s, 2, Len(s)), chars)
    ELSE s

RECURSIVE RStrip(_, _)
RStrip(s, chars) ==
    IF s # "" /\ CharAt(s, Len(s)) \in chars
    THEN RStrip(SubSeq(s, 1, Len(s) - 1), chars)
    ELSE s

StripChars(s, chars) == RStrip(LStrip(s, chars), chars)

Strip(s) == StripChars(s, Whitespace)

\* sub in s
Contains(sub, s) ==
    \E i \in 1..(Len(s) - Len(sub) + 1) : SubSeq(s, i, i + Len(sub) - 1) = sub

\* s.index(sub), 1-based
IndexOf(sub, s) ==
    CHOOSE i \in 1..(Len(s) - Len(sub) + 1) :
        /\ SubSeq(s, i, i + Len(sub) - 1) = sub
        /\ \A j \in 1..(i - 1) : SubSeq(s, j, j + Len(sub) - 1) # sub

\* any(t in s for t in table)
AnyIn(table, s) == \E k \in 1..Len(table) : Contains(table[k], s)

\* the length of the run of characters of s from position i on that satisfy
\* "is whitespace" = ws
RECURSIVE RunLen(_, _, _)
RunLen(s, i, ws) ==
    IF i > Len(s) \/ ((CharAt(s, i) \in Whitespace) # ws) THEN 0
    ELSE 1 + RunLen(s, i + 1, ws)

\* s.split()
RECURSIVE Split(_)
Split(s) ==
    LET t == LStrip(s, Whitespace)
        n == RunLen(t, 1, FALSE)
    IN  IF t = "" THEN <<>>
        ELSE <<SubSeq(t, 1, n)>> \o Split(SubSeq(t, n + 1, Len(t)))

\* s.isalpha()
IsAlpha(s) == s # "" /\ \A i \in 1..Len(s) : IsLetter(CharAt(s, i))

\* s.title(): a letter that follows a letter is lowered, any other letter is
\* raised
RECURSIVE TitleFrom(_, _)
TitleFrom(s, prevLetter) ==
    IF s = "" THEN ""
    ELSE LET c == CharAt(s, 1)
         IN  (IF prevLetter THEN LowerChar(c) ELSE UpperChar(c))
                 \o TitleFrom(SubSeq(s, 2, Len(s)), IsLetter(c))

Title(s) == TitleFrom(s, FALSE)

\* s.replace(a, b) for single characters a, b
RECURSIVE ReplaceChar(_, _, _)
ReplaceChar(s, a, b) ==
    IF s = "" THEN ""
    ELSE (IF CharAt(s, 1) = a THEN b ELSE CharAt(s, 1))
             \o ReplaceChar(SubSeq(s, 2, Len(s)), a, b)

\* sep.join(parts)
RECURSIVE Join(_, _)
Join(sep, parts) ==
    IF parts = <<>> THEN ""
    ELSE IF Len(parts) = 1 THEN parts[1]
    ELSE parts[1] \o sep \o Join(sep, Tail(parts))

DigitValue(c) == (CHOOSE i \in 1..10 : CharAt(DigitChars, i) = c) - 1

\* int(s) for a string of digits
RECURSIVE IntOf(_)
IntOf(s) ==
    IF s = "" THEN 0
    ELSE 10 * IntOf(SubSeq(s, 1, Len(s) - 1)) + DigitValue(CharAt(s, Len(s)))

RECURSIVE DigitRunLen(_, _)
DigitRunLen(s, i) ==
    IF i > Len(s) \/ ~IsDigit(CharAt(s, i)) THEN 0
    ELSE 1 + DigitRunLen(s, i + 1)

\* re.findall(r'\d+', s): the digit runs of s, in order
RECURSIVE FindNumbers(_)
FindNumbers(s) ==
    IF s = "" THEN <<>>
    ELSE IF IsDigit(CharAt(s, 1))
         THEN LET n == DigitRunLen(s, 1)
              IN  <<SubSeq(s, 1, n)>> \o FindNumbers(SubSeq(s, n + 1, Len(s)))
         ELSE FindNumbers(SubSeq(s, 2, Len(s)))

(***************************************************************************)
(* coach.py: the intent classifier                                         *)
(***************************************************************************)
food_triggers ==
    <<"ate ", "had ", "eaten ", "i ate", "i had", "i eaten", "khaya",
      "khayi", "khali", "kha liya", "kha li", "for breakfast",
      "for lunch", "for dinner", "for snack", "breakfast:", "lunch:",
      "dinner:", "snack:", "breakfast -", "lunch -", "dinner -",
      "snack -", "morning me", "dopahar me", "raat ko", "shaam ko",
      "just had", "just ate", "finished eating", "abhi khaya",
      "abhi khayi">>

food_items ==
    <<"dosa", "idli", "upma", "poha", "paratha", "roti", "chapati",
      "rice", "chawal", "dal", "daal", "sabzi", "sabji", "curry",
      "biryani", "pulao", "khichdi", "maggi", "noodles", "pasta",
      "sandwich", "burger", "pizza", "samosa", "pakora", "vada", "paneer",
      "chicken", "egg", "omelette", "omlette", "curd", "dahi", "raita",
      "lassi", "buttermilk", "chaas", "chai", "tea", "coffee", "milk",
      "doodh", "fruit", "banana", "apple", "mango", "papaya", "salad",
      "soup", "smoothie", "juice", "biscuit", "cookie", "cake", "mithai",
      "sweet", "puri", "bhaji", "chole", "rajma", "aloo", "thali",
      "dabba", "tiffin">>

water_triggers ==
    <<"water", "paani", "pani", "drank water", "had water",
      "glass of water", "glass water", "hydrat", "paani piya",
      "pani piya", "pani pi">>

summary_triggers ==
    <<"summary", "weekly summary", "week summary", "what did i eat",
      "today's log", "todays log", "my log", "show log", "food log",
      "today log", "kya khaya aaj", "aaj kya khaya", "this week",
      "is hafte">>

meal_suggestion_triggers ==
    <<"what should i eat", "what to eat", "suggest", "kya khau",
      "kya khaun", "kya khana", "meal idea", "food idea", "recipe",
      "breakfast idea", "lunch idea", "dinner idea", "what can i have",
      "what can i eat", "hungry", "bhookh", "bhook",
      "feeling like eating", "craving">>

help_commands ==
    <<"help", "?", "commands", "kya kar sakte ho", "what can you do">>

MaxFoodItemWords == 8

detect_food_log(message) ==
    LET msg == Strip(Lower(message))
    IN  \/ AnyIn(food_triggers, msg)
        \/ /\ Len(Split(msg)) <= MaxFoodItemWords
           /\ AnyIn(food_items, msg)

detect_water_log(message) == AnyIn(water_triggers, Strip(Lower(message)))

detect_summary_request(message) ==
    AnyIn(summary_triggers, Strip(Lower(message)))

detect_meal_suggestion_request(message) ==
    AnyIn(meal_suggestion_triggers, Strip(Lower(message)))

detect_help_request(message) ==
    \E k \in 1..Len(help_commands) : Strip(Lower(message)) = help_commands[k]


(***************************************************************************)
(* database.py: the store.  A table is a sequence of rows in id order      *)
(* (AUTOINCREMENT), users is a function from the phones that have a row.   *)
(* The clock is [day, hour, minute] in IST, day being the day of the       *)
(* month.  water_goal_liters is kept in tenths of a liter.                 *)
(***************************************************************************)
NULL == "NULL"

\* Python truthiness of a TEXT column: None and '' are falsy
Truthy(v) == v # NULL /\ v # ""

Pad2(n) == IF n < 10 THEN "0" \o ToString(n) ELSE ToString(n)

\* strftime("%Y-%m-%d")
today_ist(now) == "2024-01-" \o Pad2(now.day)

current_hour_ist(now) == now.hour

\* strftime("%H:%M")
TimeStr(now) == Pad2(now.hour) \o ":" \o Pad2(now.minute)

WaterGoalDefaultTenths == 30

\* the row INSERT ... (phone) VALUES (?) creates: the column defaults
NewUserRow(now) ==
    [name |-> NULL, diet_preference |-> NULL, regional_cuisine |-> NULL,
     allergies |-> NULL, health_goal |-> NULL, activity_level |-> NULL,
     water_goal_liters |-> WaterGoalDefaultTenths, onboarding_complete |-> 0,
     last_active |-> now]

\* INSERT OR REPLACE INTO users (phone): an existing row is replaced by the
\* column defaults
create_user_replace(db, phone, now) ==
    [db EXCEPT !.users =
        [p \in DOMAIN db.users \cup {phone} |->
            IF p = phone THEN NewUserRow(now) ELSE db.users[p]]]

\* INSERT OR IGNORE INTO users (phone)
create_user(db, phone, now) ==
    IF phone \in DOMAIN db.users THEN db
    ELSE [db EXCEPT !.users = db.users @@ (phone :> NewUserRow(now))]

HasUser(db, phone) == phone \in DOMAIN db.users

\* Optional[dict]: <<>> is None, <<row>> is the row as a dict
get_user(db, phone) ==
    IF HasUser(db, phone) THEN <<db.users[phone]>> ELSE <<>>

\* the columns that hold TEXT; the others hold numbers, which no caller
\* passes as None
TextColumns ==
    {"name", "age", "gender", "diet_preference", "regional_cuisine",
     "allergies", "health_goal", "activity_level", "wake_time", "sleep_time"}

AllowedColumns ==
    {"name", "age", "gender", "diet_preference", "regional_cuisine",
     "allergies", "health_goal", "activity_level", "wake_time",
     "sleep_time", "water_goal_liters", "onboarding_complete"}

\* update_user_profile with an UPDATE that has no WHERE clause
update_user_profile_all_rows(db, phone, column, value) ==
    IF column \notin AllowedColumns THEN db
    ELSE IF column \in TextColumns /\ value = NULL THEN db
    ELSE [db EXCEPT !.users =
             [p \in DOMAIN db.users |-> [db.users[p] EXCEPT ![column] = value]]]

\* update_user_profile(phone, column=value), one keyword argument
update_user_profile(db, phone, column, value) ==
    IF column \notin AllowedColumns THEN db
    ELSE IF column \in TextColumns /\ value = NULL THEN db
    ELSE IF ~HasUser(db, phone) THEN db
    ELSE [db EXCEPT !.users[phone][column] = value]

update_last_active(db, phone, now) ==
    IF ~HasUser(db, phone) THEN db
    ELSE [db EXCEPT !.users[phone].last_active = now]

save_message(db, phone, role, content) ==
    [db EXCEPT !.messages =
        Append(@, [phone |-> phone, role |-> role, content |-> content])]

\* the rows of a table that belong to phone, in id order
RECURSIVE RowsOf(_, _)
RowsOf(table, phone) ==
    IF table = <<>> THEN <<>>
    ELSE (IF table[1].phone = phone THEN <<table[1]>> ELSE <<>>)
             \o RowsOf(Tail(table), phone)

\* ORDER BY id ASC LIMIT ?: the oldest rows instead of the newest
get_recent_messages_oldest(db, phone, limit) ==
    LET rows == RowsOf(db.messages, phone)
        n == IF Len(rows) > limit THEN limit ELSE Len(rows)
    IN  [i \in 1..n |-> [role |-> rows[i].role, content |-> rows[i].content]]

\* ORDER BY id DESC LIMIT ?, then reversed
get_recent_messages(db, phone, limit) ==
    LET rows == RowsOf(db.messages, phone)
        n == Len(rows)
        first == IF n > limit THEN n - limit + 1 ELSE 1
    IN  [i \in 1..(n - first + 1) |->
            [role |-> rows[first + i - 1].role,
             content |-> rows[first + i - 1].content]]

\* SELECT COUNT(*) ... WHERE phone = ? AND role = 'user': the turns the
\* user sent
get_message_count_user_only(db, phone) ==
    Len(SelectSeq(RowsOf(db.messages, phone), LAMBDA m : m.role = "user"))

\* SELECT COUNT(*) FROM messages WHERE phone = ?
get_message_count(db, phone) == Len(RowsOf(db.messages, phone))

\* the meal type log_food derives from the hour when none is given
MealTypeOfHour(hour) ==
    IF 5 <= hour /\ hour < 11 THEN "breakfast"
    ELSE IF 11 <= hour /\ hour < 15 THEN "lunch"
    ELSE IF 15 <= hour /\ hour < 18 THEN "snack"
    ELSE IF 18 <= hour /\ hour < 22 THEN "dinner"
    ELSE "late_night"

log_food(db, phone, food_description, meal_type, ai_analysis, now) ==
    [db EXCEPT !.food_logs =
        Append(@, [phone |-> phone,
                   meal_type |-> IF Truthy(meal_type) THEN meal_type
                                 ELSE MealTypeOfHour(now.hour),
                   food_description |-> food_description,
                   meal_date |-> today_ist(now),
                   meal_time |-> TimeStr(now),
                   ai_analysis |-> ai_analysis])]

RECURSIVE RowsOnDate(_, _, _)
RowsOnDate(rows, column, date) ==
    IF rows = <<>> THEN <<>>
    ELSE (IF rows[1][column] = date THEN <<rows[1]>> ELSE <<>>)
             \o RowsOnDate(Tail(rows), column, date)

get_today_food_logs(db, phone, now) ==
    RowsOnDate(RowsOf(db.food_logs, phone), "meal_date", today_ist(now))

log_water(db, phone, glasses, now) ==
    [db EXCEPT !.water_logs =
        Append(@, [phone |-> phone, glasses |-> glasses,
                   log_date |-> today_ist(now)])]

RECURSIVE SumGlasses(_)
SumGlasses(rows) ==
    IF rows = <<>> THEN 0 ELSE rows[1].glasses + SumGlasses(Tail(rows))

\* COALESCE(SUM(glasses), 0) without "AND log_date = ?": the glasses of
\* every day
get_today_water_all_days(db, phone, now) ==
    SumGlasses(RowsOf(db.water_logs, phone))

\* COALESCE(SUM(glasses), 0)
get_today_water(db, phone, now) ==
    SumGlasses(RowsOnDate(RowsOf(db.water_logs, phone), "log_date",
                          today_ist(now)))


(***************************************************************************)
(* coach.py: the context builders                                          *)
(***************************************************************************)
SYSTEM_PROMPT == "[SYSTEM PROMPT: DietBuddy persona and style]"

\* the buckets with each boundary hour given to the bucket that ends at it
PeriodOfHour_closed(hour) ==
    IF 5 < hour /\ hour <= 8 THEN "early_morning"
    ELSE IF 8 < hour /\ hour <= 11 THEN "morning"
    ELSE IF 11 < hour /\ hour <= 13 THEN "pre_lunch"
    ELSE IF 13 < hour /\ hour <= 15 THEN "lunch"
    ELSE IF 15 < hour /\ hour <= 17 THEN "afternoon"
    ELSE IF 17 < hour /\ hour <= 20 THEN "evening"
    ELSE IF 20 < hour /\ hour <= 22 THEN "dinner"
    ELSE "late_night"

PeriodOfHour(hour) ==
    IF 5 <= hour /\ hour < 8 THEN "early_morning"
    ELSE IF 8 <= hour /\ hour < 11 THEN "morning"
    ELSE IF 11 <= hour /\ hour < 13 THEN "pre_lunch"
    ELSE IF 13 <= hour /\ hour < 15 THEN "lunch"
    ELSE IF 15 <= hour /\ hour < 17 THEN "afternoon"
    ELSE IF 17 <= hour /\ hour < 20 THEN "evening"
    ELSE IF 20 <= hour /\ hour < 22 THEN "dinner"
    ELSE "late_night"

PeriodContext(period) ==
    CASE period = "early_morning" -> "It's early morning in India."
      [] period = "morning" -> "It's morning in India."
      [] period = "pre_lunch" -> "It's approaching lunch time."
      [] period = "lunch" -> "It's lunch time in India."
      [] period = "afternoon" -> "It's afternoon."
      [] period = "evening" -> "It's evening in India."
      [] period = "dinner" -> "It's dinner time."
      [] OTHER -> "It's late night."

get_time_context(now) ==
    LET hour == current_hour_ist(now)
        period == PeriodOfHour(hour)
    IN  "[TIME CONTEXT] Date: " \o today_ist(now) \o " | IST Hour: "
            \o ToString(hour) \o ":00 | Period: " \o period \o "\n"
            \o PeriodContext(period)

\* the part a truthy column adds to a list
PartIf(cond, part) == IF cond THEN <<part>> ELSE <<>>

build_user_context(user) ==
    IF user = <<>> THEN "\n[USER: New user, no profile yet. Start onboarding.]"
    ELSE
    LET u == user[1]
        missing ==
            PartIf(~Truthy(u.name), "name")
            \o PartIf(~Truthy(u.diet_preference),
                      "diet preference (veg/non-veg/egg-only/vegan)")
            \o PartIf(~Truthy(u.health_goal), "health goal")
            \o PartIf(~Truthy(u.regional_cuisine), "regional cuisine preference")
        parts ==
            <<"\n[USER PROFILE]">>
            \o <<IF Truthy(u.name) THEN "Name: " \o u.name
                 ELSE "Name: Unknown (ask for their name)">>
            \o PartIf(Truthy(u.diet_preference), "Diet: " \o u.diet_preference)
            \o PartIf(Truthy(u.regional_cuisine),
                      "Regional cuisine: " \o u.regional_cuisine)
            \o PartIf(Truthy(u.allergies),
                      "Allergies/restrictions: " \o u.allergies)
            \o PartIf(Truthy(u.health_goal), "Goal: " \o u.health_goal)
            \o PartIf(Truthy(u.activity_level),
                      "Activity level: " \o u.activity_level)
            \o (IF u.onboarding_complete # 0 THEN <<>>
                ELSE IF missing # <<>>
                THEN <<"[ONBOARDING INCOMPLETE - Still need: "
                       \o Join(", ", missing)
                       \o ". Ask for the NEXT missing item naturally, ONE at a time.]">>
                ELSE <<"[ONBOARDING COMPLETE - All info gathered. Mark as complete.]">>)
    IN  Join("\n", parts)

\* meal_type.replace("_", " ").title()
MealTitle(meal_type) == Title(ReplaceChar(meal_type, "_", " "))

FoodContextLines(logs) ==
    [i \in 1..Len(logs) |->
        "- " \o MealTitle(logs[i].meal_type) \o " ("
            \o logs[i].meal_time \o "): " \o logs[i].food_description]

build_today_food_context(logs) ==
    IF logs = <<>> THEN "\n[TODAY'S FOOD LOG: No meals logged yet today.]"
    ELSE Join("\n", <<"\n[TODAY'S FOOD LOG]">> \o FoodContextLines(logs))

\* int(goal * 4), goal in tenths of a liter
GoalGlasses(goalTenths) == (goalTenths * 4) \div 10

\* str() of the float goal
FloatStr(tenths) == ToString(tenths \div 10) \o "." \o ToString(tenths % 10)

build_water_context(glasses_today, goal) ==
    "\n[HYDRATION] Water today: " \o ToString(glasses_today)
        \o " glasses (goal: ~" \o ToString(GoalGlasses(goal)) \o " glasses / "
        \o FloatStr(goal) \o "L)"


(***************************************************************************)
(* main.py: _clean_response                                                *)
(***************************************************************************)
\* the characters U+1F300..U+1F9FF are represented by "@"
PictographChars == {"@"}

MaxReplyLen == 4000

MinParagraphCut == 2000

\* where the bold marker opened at i closes: the first "**" after it on the
\* same line (.*? does not cross a newline); 0 when there is none
BoldClose(text, i) ==
    LET J == {j \in (i + 2)..(Len(text) - 1) :
                /\ SubSeq(text, j, j + 1) = "**"
                /\ \A k \in (i + 2)..(j - 1) : CharAt(text, k) # "\n"}
    IN  IF J = {} THEN 0 ELSE CHOOSE j \in J : \A k \in J : j <= k

\* the least element of a non-empty set of integers
Least(J) == CHOOSE j \in J : \A k \in J : j <= k

\* the first position from i on where r'\*\*(.*?)\*\*' matches, 0 when
\* there is none
NextBold(text, i) ==
    LET J == {j \in i..(Len(text) - 1) :
                SubSeq(text, j, j + 1) = "**" /\ BoldClose(text, j) # 0}
    IN  IF J = {} THEN 0 ELSE Least(J)

\* re.sub(r'\*\*(.*?)\*\*', r'\1', text), from position i on
RECURSIVE StripBoldFrom(_, _)
StripBoldFrom(text, i) ==
    IF i > Len(text) THEN ""
    ELSE LET j == NextBold(text, i)
         IN  IF j = 0 THEN SubSeq(text, i, Len(text))
             ELSE SubSeq(text, i, j - 1)
                      \o SubSeq(text, j + 2, BoldClose(text, j) - 1)
                      \o StripBoldFrom(text, BoldClose(text, j) + 2)

RECURSIVE HashRunLen(_, _)
HashRunLen(text, i) ==
    IF i > Len(text) \/ CharAt(text, i) # "#" THEN 0
    ELSE 1 + HashRunLen(text, i + 1)

\* r'^#{1,3}\s+' matches at position i
IsHeaderAt(text, i) ==
    /\ CharAt(text, i) = "#"
    /\ i = 1 \/ CharAt(text, i - 1) = "\n"
    /\ HashRunLen(text, i) <= 3
    /\ RunLen(text, i + HashRunLen(text, i), TRUE) >= 1

\* the first position from i on where the header pattern matches, 0 when
\* there is none
NextHeader(text, i) ==
    LET J == {j \in i..Len(text) : IsHeaderAt(text, j)}
    IN  IF J = {} THEN 0 ELSE Least(J)

\* re.sub(r'^#{1,3}\s+', '', text, flags=re.MULTILINE), from position i on
RECURSIVE StripHeadersFrom(_, _)
StripHeadersFrom(text, i) ==
    IF i > Len(text) THEN ""
    ELSE LET j == NextHeader(text, i)
             k == HashRunLen(text, j)
             w == RunLen(text, j + k, TRUE)
         IN  IF j = 0 THEN SubSeq(text, i, Len(text))
             ELSE SubSeq(text, i, j - 1) \o StripHeadersFrom(text, j + k + w)

RECURSIVE PictographRunLen(_, _)
PictographRunLen(text, i) ==
    IF i > Len(text) \/ CharAt(text, i) \notin PictographChars THEN 0
    ELSE 1 + PictographRunLen(text, i + 1)

\* the first position from i on where a run of 4 or more pictographs
\* starts, 0 when there is none
NextPictographRun(text, i) ==
    LET J == {j \in i..Len(text) :
                /\ CharAt(text, j) \in PictographChars
                /\ PictographRunLen(text, j) >= 4}
    IN  IF J = {} THEN 0 ELSE Least(J)

\* re.sub(r'([\U0001F300-\U0001F9FF]){4,}', lambda m: m.group(0)[:3], text)
RECURSIVE CapPictographsFrom(_, _)
CapPictographsFrom(text, i) ==
    IF i > Len(text) THEN ""
    ELSE LET j == NextPictographRun(text, i)
             r == PictographRunLen(text, j)
         IN  IF j = 0 THEN SubSeq(text, i, Len(text))
             ELSE SubSeq(text, i, j + 2) \o CapPictographsFrom(text, j + r)

\* text.rfind(sub): 0-based, -1 when absent
RFind(sub, text) ==
    LET J == {j \in 1..(Len(text) - Len(sub) + 1) :
                SubSeq(text, j, j + Len(sub) - 1) = sub}
    IN  IF J = {} THEN -1 ELSE (CHOOSE j \in J : \A k \in J : k <= j) - 1

Truncate(text) ==
    IF Len(text) > MaxReplyLen
    THEN LET head == SubSeq(text, 1, MaxReplyLen)
             cut == RFind("\n\n", head)
             cut2 == RFind(". ", head)
         IN  IF cut > MinParagraphCut THEN SubSeq(text, 1, cut)
             ELSE IF cut2 > 0 THEN SubSeq(text, 1, cut2 + 1)
             ELSE head
    ELSE text

clean_response(text) ==
    Strip(Truncate(CapPictographsFrom(
        StripHeadersFrom(StripBoldFrom(text, 1), 1), 1)))


(***************************************************************************)
(* main.py: profile extraction and onboarding                              *)
(***************************************************************************)
name_triggers ==
    <<"my name is ", "i'm ", "i am ", "mera naam ", "this is ",
      "call me ", "naam ", "name is ">>

NamePunctuation == {".", ",", "!", "?"}

MinNameLen == 2

MaxNameLen == 20

MaxFallbackMsgCount == 4

MaxFallbackWords == 2

veg_patterns ==
    <<[key |-> "vegetarian",
       patterns |-> <<"vegetarian", "veg ", "pure veg", "shakahari">>],
      [key |-> "non-vegetarian",
       patterns |-> <<"non veg", "non-veg", "nonveg", "i eat meat", "chicken",
                      "mutton", "fish", "non vegetarian">>],
      [key |-> "eggetarian",
       patterns |-> <<"egg only", "eggetarian", "egg but no meat", "anda">>],
      [key |-> "vegan", patterns |-> <<"vegan", "no dairy", "plant based">>],
      [key |-> "jain", patterns |-> <<"jain", "jain food">>]>>

cuisine_patterns ==
    <<[key |-> "North Indian",
       patterns |-> <<"north indian", "punjabi", "delhi", "up food",
                      "rajasthani">>],
      [key |-> "South Indian",
       patterns |-> <<"south indian", "tamil", "kerala", "karnataka", "andhra",
                      "telugu", "dosa", "idli lover">>],
      [key |-> "Maharashtrian",
       patterns |-> <<"maharashtrian", "marathi", "maharashtra",
                      "mumbai food">>],
      [key |-> "Gujarati", patterns |-> <<"gujarati", "gujrati", "gujarat">>],
      [key |-> "Bengali", patterns |-> <<"bengali", "bangla", "kolkata food">>],
      [key |-> "Hyderabadi", patterns |-> <<"hyderabadi", "hyderabad">>],
      [key |-> "Mixed / All",
       patterns |-> <<"mixed", "everything", "all types", "sab kuch",
                      "no preference">>]>>

goal_patterns ==
    <<[key |-> "eat healthier",
       patterns |-> <<"eat healthy", "eat healthier", "healthy eating",
                      "improve diet", "better diet", "clean eating">>],
      [key |-> "lose weight",
       patterns |-> <<"lose weight", "weight loss", "fat loss", "slim",
                      "weight kam", "vajan kam", "pet kam">>],
      [key |-> "gain muscle",
       patterns |-> <<"gain muscle", "build muscle", "bulk", "mass gain",
                      "muscle bana", "body bana">>],
      [key |-> "more energy",
       patterns |-> <<"more energy", "energy", "stamina", "tired", "fatigue",
                      "thakaan", "active rehna">>],
      [key |-> "manage sugar",
       patterns |-> <<"sugar", "diabetes", "blood sugar", "sugar control">>],
      [key |-> "general wellness",
       patterns |-> <<"general", "overall", "wellness", "fit rehna">>]>>

\* for key, patterns in table.items(): if any(p in msg_lower ...): the first
\* key that matches, NULL when none does
FirstMatch(table, msg_lower) ==
    LET K == {k \in 1..Len(table) : AnyIn(table[k].patterns, msg_lower)}
    IN  IF K = {} THEN NULL
        ELSE table[CHOOSE k \in K : \A j \in K : k <= j].key

\* message[msg_lower.index(trigger) + len(trigger):].strip().split()
NameWords(message, trigger) ==
    LET msg_lower == Strip(Lower(message))
        start == (IndexOf(trigger, msg_lower) - 1) + Len(trigger)
    IN  Split(Strip(SubSeq(message, start + 1, Len(message))))

\* the loop over name_triggers from the k-th on: "found" with the name the
\* first accepted trigger gives, "none" when no trigger gives one, "raise"
\* when split()[0] has no element
RECURSIVE NameTriggerScan(_, _)
NameTriggerScan(message, k) ==
    IF k > Len(name_triggers) THEN [kind |-> "none", name |-> NULL]
    ELSE IF ~Contains(name_triggers[k], Strip(Lower(message)))
    THEN NameTriggerScan(message, k + 1)
    ELSE LET words == NameWords(message, name_triggers[k])
             name == StripChars(words[1], NamePunctuation)
         IN  IF Len(words) = 0 THEN [kind |-> "raise", name |-> NULL]
             ELSE IF MinNameLen <= Len(name) /\ Len(name) <= MaxNameLen
                     /\ IsAlpha(name)
             THEN [kind |-> "found", name |-> Title(name)]
             ELSE NameTriggerScan(message, k + 1)

\* _check_onboarding_complete writing the flag's negation instead of 1
check_onboarding_complete_flips(db, phone) ==
    LET user == get_user(db, phone)
    IN  IF /\ user # <<>>
           /\ Truthy(user[1].name)
           /\ Truthy(user[1].diet_preference)
           /\ Truthy(user[1].health_goal)
        THEN update_user_profile(db, phone, "onboarding_complete",
                                 1 - user[1].onboarding_complete)
        ELSE db

\* _check_onboarding_complete asking for the regional cuisine as well
check_onboarding_complete_needs_cuisine(db, phone) ==
    LET user == get_user(db, phone)
    IN  IF /\ user # <<>>
           /\ Truthy(user[1].name)
           /\ Truthy(user[1].diet_preference)
           /\ Truthy(user[1].health_goal)
           /\ Truthy(user[1].regional_cuisine)
        THEN update_user_profile(db, phone, "onboarding_complete", 1)
        ELSE db

\* _check_onboarding_complete deriving completion from the goal alone, the
\* last field the onboarding asks for
check_onboarding_complete_goal_only(db, phone) ==
    LET user == get_user(db, phone)
    IN  IF /\ user # <<>>
           /\ Truthy(user[1].health_goal)
        THEN update_user_profile(db, phone, "onboarding_complete", 1)
        ELSE db

check_onboarding_complete(db, phone) ==
    LET user == get_user(db, phone)
    IN  IF /\ user # <<>>
           /\ Truthy(user[1].name)
           /\ Truthy(user[1].diet_preference)
           /\ Truthy(user[1].health_goal)
        THEN update_user_profile(db, phone, "onboarding_complete", 1)
        ELSE db

\* the name the fallback heuristic takes from a short alphabetic message,
\* NULL when the message is not one
FallbackName(message) ==
    LET name == Title(StripChars(message, NamePunctuation))
    IN  IF /\ Len(Split(message)) <= MaxFallbackWords
           /\ Len(message) <= MaxNameLen
           /\ IsAlpha(name)
           /\ Len(name) >= MinNameLen
        THEN name ELSE NULL

MIN_GLASSES == 1

MAX_GLASSES == 10

\* _handle_water_log's parse with glasses initialised to 0
ParseGlasses_zero_default(message) ==
    LET numbers == FindNumbers(message)
        num == IntOf(numbers[1])
    IN  IF Len(numbers) > 0 /\ MIN_GLASSES <= num /\ num <= MAX_GLASSES
        THEN num ELSE 0

\* the glass count _handle_water_log takes from the message
ParseGlasses(message) ==
    LET numbers == FindNumbers(message)
        num == IntOf(numbers[1])
    IN  IF Len(numbers) > 0 /\ MIN_GLASSES <= num /\ num <= MAX_GLASSES
        THEN num ELSE 1

\* what the keyword tables give for a message: they read the text alone
MessageFacts(message) ==
    [is_help |-> detect_help_request(message),
     is_water |-> detect_water_log(message),
     is_food |-> detect_food_log(message),
     is_summary |-> detect_summary_request(message),
     is_suggestion |-> detect_meal_suggestion_request(message),
     glasses |-> ParseGlasses(message),
     name_scan |-> NameTriggerScan(message, 1),
     fallback_name |-> FallbackName(message),
     diet |-> FirstMatch(veg_patterns, Strip(Lower(message))),
     cuisine |-> FirstMatch(cuisine_patterns, Strip(Lower(message))),
     goal |-> FirstMatch(goal_patterns, Strip(Lower(message)))]

\* the health goal section
ExtractGoal(db, phone, facts, user) ==
    IF ~Truthy(user[1].health_goal) /\ facts.goal # NULL
    THEN check_onboarding_complete(
             update_user_profile(db, phone, "health_goal", facts.goal), phone)
    ELSE db

\* the regional cuisine section, and what follows it
ExtractCuisine(db, phone, facts, user) ==
    IF ~Truthy(user[1].regional_cuisine) /\ facts.cuisine # NULL
    THEN check_onboarding_complete(
             update_user_profile(db, phone, "regional_cuisine", facts.cuisine),
             phone)
    ELSE ExtractGoal(db, phone, facts, user)

\* the diet preference section, and what follows it
ExtractDiet(db, phone, facts, user) ==
    IF ~Truthy(user[1].diet_preference) /\ facts.diet # NULL
    THEN check_onboarding_complete(
             update_user_profile(db, phone, "diet_preference", facts.diet),
             phone)
    ELSE ExtractCuisine(db, phone, facts, user)

\* the name fallback open for the first two stored turns only
ExtractNameFallback_two_turns(db, phone, facts) ==
    IF /\ get_message_count(db, phone) <= 2
       /\ facts.fallback_name # NULL
    THEN update_user_profile(db, phone, "name", facts.fallback_name)
    ELSE db

\* "Short message early in conversation = likely a name": no return after it
ExtractNameFallback(db, phone, facts) ==
    IF /\ get_message_count(db, phone) <= MaxFallbackMsgCount
       /\ facts.fallback_name # NULL
    THEN update_user_profile(db, phone, "name", facts.fallback_name)
    ELSE db

\* _extract_profile_info without the "if not user.get('name')" guard
extract_profile_info_overwrites(db, phone, facts, user) ==
    IF facts.name_scan.kind = "raise" THEN [db |-> db, raised |-> TRUE]
    ELSE IF facts.name_scan.kind = "found"
    THEN [db |-> update_user_profile(db, phone, "name", facts.name_scan.name),
          raised |-> FALSE]
    ELSE [db |-> ExtractDiet(ExtractNameFallback(db, phone, facts),
                             phone, facts, user),
          raised |-> FALSE]

\* _extract_profile_info(phone, message, user), facts being the message's:
\* the store after it, and whether it raised
extract_profile_info(db, phone, facts, user) ==
    IF Truthy(user[1].name)
    THEN [db |-> ExtractDiet(db, phone, facts, user), raised |-> FALSE]
    ELSE IF facts.name_scan.kind = "raise" THEN [db |-> db, raised |-> TRUE]
    ELSE IF facts.name_scan.kind = "found"
    THEN [db |-> update_user_profile(db, phone, "name", facts.name_scan.name),
          raised |-> FALSE]
    ELSE [db |-> ExtractDiet(ExtractNameFallback(db, phone, facts),
                             phone, facts, user),
          raised |-> FALSE]

(***************************************************************************)
(* main.py: the handlers.  A handler gives the store after it, the text it *)
(* returns, the calls it made to the completion interface (each the list   *)
(* of messages sent, and whether the call returned) and the branch of      *)
(* get_ai_response that was taken.  outcome is what the completion         *)
(* interface does when called: it raises (ok = FALSE) or returns content.  *)
(***************************************************************************)
help_text ==
    "Hey! Here's what I can do\n\nTell me what you ate - I'll track it and give tips\nSay 'water' - I'll log your hydration\nAsk 'what should I eat' - I'll suggest meals\nSay 'summary' - I'll show your weekly eating patterns\nSay 'today's log' - I'll recap what you ate today\n\nOr just chat with me about anything food related!"

fallback_text == "Ek second, thoda issue ho gaya. Please try again?"

no_meals_text == "You haven't logged any meals today yet! Batao kya khaya aaj?"

food_log_instruction ==
    "\n[INSTRUCTION: User just logged food. This has been saved. Acknowledge the meal positively, assess it briefly, and give ONE helpful suggestion. Keep it short and warm.]"

meal_suggestion_instruction ==
    "\n[INSTRUCTION: User wants a meal suggestion. Consider the time of day, their diet preference, regional cuisine, and what they've already eaten today. Suggest ONE specific, practical Indian meal.]"

MAX_CONTEXT_MESSAGES == 15

\* user.get("water_goal_liters", 3.0) if user else 3.0
WaterGoalOf(user) ==
    IF user = <<>> THEN WaterGoalDefaultTenths ELSE user[1].water_goal_liters

\* the templated reply with the goal counted as hit only above it
WaterReply_strict(total, goal_glasses) ==
    IF total > goal_glasses
    THEN "Logged! You've had " \o ToString(total)
             \o " glasses today - you've hit your goal! Awesome"
    ELSE IF 10 * total >= 7 * goal_glasses
    THEN "Nice! " \o ToString(total)
             \o " glasses done today. Almost at your goal of "
             \o ToString(goal_glasses) \o "! Keep going"
    ELSE "Logged! " \o ToString(total) \o " glasses so far today. About "
             \o ToString(goal_glasses - total)
             \o " more to hit your goal. You got this!"

\* the templated reply: total >= goal_glasses, total >= goal_glasses * 0.7
WaterReply(total, goal_glasses) ==
    IF total >= goal_glasses
    THEN "Logged! You've had " \o ToString(total)
             \o " glasses today - you've hit your goal! Awesome"
    ELSE IF 10 * total >= 7 * goal_glasses
    THEN "Nice! " \o ToString(total)
             \o " glasses done today. Almost at your goal of "
             \o ToString(goal_glasses) \o "! Keep going"
    ELSE "Logged! " \o ToString(total) \o " glasses so far today. About "
             \o ToString(goal_glasses - total)
             \o " more to hit your goal. You got this!"

handle_water_log(db, phone, facts, user, now) ==
    LET db1 == log_water(db, phone, facts.glasses, now)
        total == get_today_water(db1, phone, now)
        reply == WaterReply(total, GoalGlasses(WaterGoalOf(user)))
    IN  [db |-> update_last_active(
                    save_message(db1, phone, "assistant", reply), phone, now),
         reply |-> reply, calls |-> <<>>, branch |-> "water"]

RecapLines(logs) ==
    [i \in 1..Len(logs) |->
        "* " \o MealTitle(logs[i].meal_type) \o " ("
            \o logs[i].meal_time \o "): " \o logs[i].food_description]

\* today_text of _handle_summary
TodayText(today_food, water) ==
    Join("\n", <<"Here's what you've eaten today\n">> \o RecapLines(today_food)
                   \o <<"\nWater: " \o ToString(water) \o " glasses">>)

AssessmentPrompt(user, today_text) ==
    SYSTEM_PROMPT \o "\n\n" \o build_user_context(user)
        \o "\n\n[TODAY'S COMPLETE FOOD LOG]\n" \o today_text
        \o "\n\n[INSTRUCTION: Give a brief, warm 2-3 sentence assessment of today's eating. Highlight one good thing and one gentle improvement suggestion. Don't repeat the food list - the user already sees it above your message.]"

\* _handle_summary whose except clause gives up: the apology, nothing saved
handle_summary_gives_up(db, phone, user, outcome, now) ==
    LET today_food == get_today_food_logs(db, phone, now)
        today_text == TodayText(today_food, get_today_water(db, phone, now))
        call == [messages |->
                     <<[role |-> "system",
                        content |-> AssessmentPrompt(user, today_text)],
                       [role |-> "user", content |-> "How did I eat today?"]>>,
                 ok |-> outcome.ok]
        reply == today_text \o "\n\n" \o outcome.cleaned
    IN  IF Len(today_food) = 0
        THEN [db |-> save_message(db, phone, "assistant", no_meals_text),
              reply |-> no_meals_text, calls |-> <<>>, branch |-> "summary"]
        ELSE IF ~outcome.ok
        THEN [db |-> db, reply |-> fallback_text, calls |-> <<call>>,
              branch |-> "summary"]
        ELSE [db |-> update_last_active(
                         save_message(db, phone, "assistant", reply), phone, now),
              reply |-> reply, calls |-> <<call>>, branch |-> "summary"]

\* _handle_summary giving the fixed reply only when the day has neither a
\* meal nor water
handle_summary_recaps_water(db, phone, user, outcome, now) ==
    LET today_food == get_today_food_logs(db, phone, now)
        today_text == TodayText(today_food, get_today_water(db, phone, now))
        call == [messages |->
                     <<[role |-> "system",
                        content |-> AssessmentPrompt(user, today_text)],
                       [role |-> "user", content |-> "How did I eat today?"]>>,
                 ok |-> outcome.ok]
        reply == IF outcome.ok
                 THEN today_text \o "\n\n" \o outcome.cleaned
                 ELSE today_text
    IN  IF Len(today_food) = 0 /\ get_today_water(db, phone, now) = 0
        THEN [db |-> save_message(db, phone, "assistant", no_meals_text),
              reply |-> no_meals_text, calls |-> <<>>, branch |-> "summary"]
        ELSE [db |-> update_last_active(
                         save_message(db, phone, "assistant", reply), phone, now),
              reply |-> reply, calls |-> <<call>>, branch |-> "summary"]

handle_summary(db, phone, user, outcome, now) ==
    LET today_food == get_today_food_logs(db, phone, now)
        today_text == TodayText(today_food, get_today_water(db, phone, now))
        call == [messages |->
                     <<[role |-> "system",
                        content |-> AssessmentPrompt(user, today_text)],
                       [role |-> "user", content |-> "How did I eat today?"]>>,
                 ok |-> outcome.ok]
        reply == IF outcome.ok
                 THEN today_text \o "\n\n" \o outcome.cleaned
                 ELSE today_text
    IN  IF Len(today_food) = 0
        THEN [db |-> save_message(db, phone, "assistant", no_meals_text),
              reply |-> no_meals_text, calls |-> <<>>, branch |-> "summary"]
        ELSE [db |-> update_last_active(
                         save_message(db, phone, "assistant", reply), phone, now),
              reply |-> reply, calls |-> <<call>>, branch |-> "summary"]

\* system_message, the joined context_parts
SystemMessage(db, phone, facts, user, now) ==
    Join("\n",
         <<SYSTEM_PROMPT,
           get_time_context(now),
           build_user_context(user),
           build_today_food_context(get_today_food_logs(db, phone, now)),
           build_water_context(get_today_water(db, phone, now),
                               WaterGoalOf(user))>>
         \o PartIf(facts.is_food, food_log_instruction)
         \o PartIf(facts.is_suggestion, meal_suggestion_instruction))

\* the general branch whose except clause persists the apology as the
\* assistant turn
general_chat_saves_fallback(db, phone, user_message, facts, user, outcome, now) ==
    LET db1 == IF facts.is_food
               THEN log_food(db, phone, user_message, NULL, NULL, now)
               ELSE db
        history == get_recent_messages(db1, phone, MAX_CONTEXT_MESSAGES)
        call == [messages |->
                     <<[role |-> "system",
                        content |-> SystemMessage(db1, phone, facts, user,
                                                  now)]>> \o history,
                 ok |-> outcome.ok]
        ai_reply == IF outcome.ok THEN outcome.cleaned ELSE fallback_text
        db2 == save_message(db1, phone, "assistant", ai_reply)
        ext == extract_profile_info(db2, phone, facts, user)
    IN  IF ~outcome.ok
        THEN [db |-> db2, reply |-> fallback_text, calls |-> <<call>>,
              branch |-> "general"]
        ELSE [db |-> update_last_active(ext.db, phone, now),
              reply |-> ai_reply, calls |-> <<call>>, branch |-> "general"]

\* the general branch building its context from the profile as the
\* extractor leaves it
general_chat_context_after_extraction(db, phone, user_message, facts, user, outcome, now) ==
    LET db1 == IF facts.is_food
               THEN log_food(db, phone, user_message, NULL, NULL, now)
               ELSE db
        history == get_recent_messages(db1, phone, MAX_CONTEXT_MESSAGES)
        extracted == get_user(extract_profile_info(db1, phone, facts, user).db,
                              phone)
        call == [messages |->
                     <<[role |-> "system",
                        content |-> SystemMessage(db1, phone, facts, extracted,
                                                  now)]>> \o history,
                 ok |-> outcome.ok]
        ai_reply == outcome.cleaned
        db2 == save_message(db1, phone, "assistant", ai_reply)
        ext == extract_profile_info(db2, phone, facts, user)
    IN  IF ~outcome.ok
        THEN [db |-> db1, reply |-> fallback_text, calls |-> <<call>>,
              branch |-> "general"]
        ELSE IF ext.raised
        THEN [db |-> ext.db, reply |-> fallback_text, calls |-> <<call>>,
              branch |-> "general"]
        ELSE [db |-> update_last_active(ext.db, phone, now),
              reply |-> ai_reply, calls |-> <<call>>, branch |-> "general"]

\* the general branch whose except clause takes the food entry back
general_chat_rolls_back_food(db, phone, user_message, facts, user, outcome, now) ==
    LET db1 == IF facts.is_food
               THEN log_food(db, phone, user_message, NULL, NULL, now)
               ELSE db
        history == get_recent_messages(db1, phone, MAX_CONTEXT_MESSAGES)
        call == [messages |->
                     <<[role |-> "system",
                        content |-> SystemMessage(db1, phone, facts, user,
                                                  now)]>> \o history,
                 ok |-> outcome.ok]
        ai_reply == outcome.cleaned
        db2 == save_message(db1, phone, "assistant", ai_reply)
        ext == extract_profile_info(db2, phone, facts, user)
    IN  IF ~outcome.ok
        THEN [db |-> db, reply |-> fallback_text, calls |-> <<call>>,
              branch |-> "general"]
        ELSE IF ext.raised
        THEN [db |-> ext.db, reply |-> fallback_text, calls |-> <<call>>,
              branch |-> "general"]
        ELSE [db |-> update_last_active(ext.db, phone, now),
              reply |-> ai_reply, calls |-> <<call>>, branch |-> "general"]

\* the general branch running the profile extractor in its except clause
\* too
general_chat_extracts_on_failure(db, phone, user_message, facts, user, outcome, now) ==
    LET db1 == IF facts.is_food
               THEN log_food(db, phone, user_message, NULL, NULL, now)
               ELSE db
        history == get_recent_messages(db1, phone, MAX_CONTEXT_MESSAGES)
        call == [messages |->
                     <<[role |-> "system",
                        content |-> SystemMessage(db1, phone, facts, user,
                                                  now)]>> \o history,
                 ok |-> outcome.ok]
        ai_reply == outcome.cleaned
        db2 == save_message(db1, phone, "assistant", ai_reply)
        ext == extract_profile_info(db2, phone, facts, user)
    IN  IF ~outcome.ok
        THEN [db |-> extract_profile_info(db1, phone, facts, user).db,
              reply |-> fallback_text, calls |-> <<call>>,
              branch |-> "general"]
        ELSE IF ext.raised
        THEN [db |-> ext.db, reply |-> fallback_text, calls |-> <<call>>,
              branch |-> "general"]
        ELSE [db |-> update_last_active(ext.db, phone, now),
              reply |-> ai_reply, calls |-> <<call>>, branch |-> "general"]

\* the general branch building its context before it logs the food
general_chat_context_first(db, phone, user_message, facts, user, outcome, now) ==
    LET db1 == IF facts.is_food
               THEN log_food(db, phone, user_message, NULL, NULL, now)
               ELSE db
        history == get_recent_messages(db1, phone, MAX_CONTEXT_MESSAGES)
        call == [messages |->
                     <<[role |-> "system",
                        content |-> SystemMessage(db, phone, facts, user,
                                                  now)]>> \o history,
                 ok |-> outcome.ok]
        ai_reply == outcome.cleaned
        db2 == save_message(db1, phone, "assistant", ai_reply)
        ext == extract_profile_info(db2, phone, facts, user)
    IN  IF ~outcome.ok
        THEN [db |-> db1, reply |-> fallback_text, calls |-> <<call>>,
              branch |-> "general"]
        ELSE IF ext.raised
        THEN [db |-> ext.db, reply |-> fallback_text, calls |-> <<call>>,
              branch |-> "general"]
        ELSE [db |-> update_last_active(ext.db, phone, now),
              reply |-> ai_reply, calls |-> <<call>>, branch |-> "general"]

\* get_ai_response from "Detect and log food" on
general_chat(db, phone, user_message, facts, user, outcome, now) ==
    LET db1 == IF facts.is_food
               THEN log_food(db, phone, user_message, NULL, NULL, now)
               ELSE db
        history == get_recent_messages(db1, phone, MAX_CONTEXT_MESSAGES)
        call == [messages |->
                     <<[role |-> "system",
                        content |-> SystemMessage(db1, phone, facts, user,
                                                  now)]>> \o history,
                 ok |-> outcome.ok]
        ai_reply == outcome.cleaned
        db2 == save_message(db1, phone, "assistant", ai_reply)
        ext == extract_profile_info(db2, phone, facts, user)
    IN  IF ~outcome.ok
        THEN [db |-> db1, reply |-> fallback_text, calls |-> <<call>>,
              branch |-> "general"]
        ELSE IF ext.raised
        THEN [db |-> ext.db, reply |-> fallback_text, calls |-> <<call>>,
              branch |-> "general"]
        ELSE [db |-> update_last_active(ext.db, phone, now),
              reply |-> ai_reply, calls |-> <<call>>, branch |-> "general"]

\* get_ai_response without the help command: the message goes on to the
\* other branches
dispatch_without_help(db, phone, user_message, facts, user, outcome, now) ==
    IF facts.is_water /\ ~facts.is_food
    THEN handle_water_log(db, phone, facts, user, now)
    ELSE IF facts.is_summary
    THEN handle_summary(db, phone, user, outcome, now)
    ELSE general_chat(db, phone, user_message, facts, user, outcome, now)

\* get_ai_response whose water test lacks "and not detect_food_log"
dispatch_water_first(db, phone, user_message, facts, user, outcome, now) ==
    IF facts.is_help
    THEN [db |-> update_last_active(
                     save_message(db, phone, "assistant", help_text), phone, now),
          reply |-> help_text, calls |-> <<>>, branch |-> "help"]
    ELSE IF facts.is_water
    THEN handle_water_log(db, phone, facts, user, now)
    ELSE IF facts.is_summary
    THEN handle_summary(db, phone, user, outcome, now)
    ELSE general_chat(db, phone, user_message, facts, user, outcome, now)

\* get_ai_response that logs detected food before it tests for a summary
dispatch_food_before_summary(db, phone, user_message, facts, user, outcome, now) ==
    IF facts.is_help
    THEN [db |-> update_last_active(
                     save_message(db, phone, "assistant", help_text), phone, now),
          reply |-> help_text, calls |-> <<>>, branch |-> "help"]
    ELSE IF facts.is_water /\ ~facts.is_food
    THEN handle_water_log(db, phone, facts, user, now)
    ELSE IF facts.is_summary /\ ~facts.is_food
    THEN handle_summary(db, phone, user, outcome, now)
    ELSE general_chat(db, phone, user_message, facts, user, outcome, now)

\* the branches of get_ai_response after the inbound turn was saved
dispatch(db, phone, user_message, facts, user, outcome, now) ==
    IF facts.is_help
    THEN [db |-> update_last_active(
                     save_message(db, phone, "assistant", help_text), phone, now),
          reply |-> help_text, calls |-> <<>>, branch |-> "help"]
    ELSE IF facts.is_water /\ ~facts.is_food
    THEN handle_water_log(db, phone, facts, user, now)
    ELSE IF facts.is_summary
    THEN handle_summary(db, phone, user, outcome, now)
    ELSE general_chat(db, phone, user_message, facts, user, outcome, now)

\* get_ai_response(phone, user_message); facts are MessageFacts of the
\* message, outcome.cleaned is _clean_response(content.strip())
get_ai_response(db, phone, user_message, facts, outcome, now) ==
    LET db1 == IF get_user(db, phone) = <<>> THEN create_user(db, phone, now)
               ELSE db
        user == get_user(db1, phone)
        db2 == save_message(db1, phone, "user", user_message)
    IN  dispatch(db2, phone, user_message, facts, user, outcome, now)

\* get_ai_response from "if not user" on, seen being what its first
\* db.get_user(phone) returned: the row is created and read again only when
\* that was None, otherwise seen is the user of the whole request
get_ai_response_after_lookup(db, phone, user_message, facts, outcome, now, seen) ==
    LET db1 == IF seen = <<>> THEN create_user(db, phone, now) ELSE db
        user == IF seen = <<>> THEN get_user(db1, phone) ELSE seen
        db2 == save_message(db1, phone, "user", user_message)
    IN  dispatch(db2, phone, user_message, facts, user, outcome, now)

(***************************************************************************)
(* The state machine.  users, messages, food_logs and water_logs are the   *)
(* tables; clock is the IST wall clock; nreq counts the inbound text       *)
(* messages handled; last records the last one handled: its sender and     *)
(* text, what get_ai_response returned, the completion calls it made and   *)
(* the branch it took; response records the last answered POST /webhook:   *)
(* the kind of its payload, the HTTP outcome and the message sent to the   *)
(* sender.                                                                 *)
(***************************************************************************)
Phones == {"919800000001"}

\* messages that exercise the branches of get_ai_response
RoutingMessages ==
    {"help", "paani", "had water", "chai pani summary", "aaj kya khaya",
     "kya khau"}

\* messages that exercise the profile extractor
OnboardingMessages ==
    {"i eat chicken", "want weight loss", "call me rahul", "vegetarian",
     "Rahul", "punjabi", "help", "^ i am X"}

\* messages that only log water, with and without a glass count
WaterMessages == {"paani", "paani 10", "paani 15", "paani 0", "paani 3"}

\* messages that report food, with and without naming the meal
FoodMessages == {"ate 2 rotis and dal for lunch", "had poha"}

\* messages of one key that race: each writes one profile field, or logs
\* water
RaceMessages == {"call me rahul", "vegetarian", "want weight loss", "paani"}

\* messages of every branch: two the extractor reads, and single words that
\* take the help, water-only and summary branches
FrameMessages ==
    {"call me rahul", "vegetarian", "help", "paani", "summary"}

\* water-only messages, one with a count out of range, and one message that
\* takes the general branch
HydrationMessages == {"paani", "paani 3", "paani 15", "kya khau"}

Messages ==
    RoutingMessages \cup OnboardingMessages \cup WaterMessages
        \cup FoodMessages \cup RaceMessages \cup FrameMessages

\* what the completion interface returns when it does not raise
RawReplies == {"**Nice** choice! "}

\* the facts of every message, computed once
FactsOf == [m \in Messages |-> MessageFacts(m)]

\* the post-processed text of every raw reply, computed once
CleanedOf == [c \in RawReplies |-> clean_response(Strip(c))]

Outcomes ==
    {[ok |-> FALSE, content |-> "", cleaned |-> ""]}
    \cup {[ok |-> TRUE, content |-> c, cleaned |-> CleanedOf[c]] :
              c \in RawReplies}

\* the instants at which the clock is read, in order
Instants ==
    <<[day |-> 1, hour |-> 13, minute |-> 5],
      [day |-> 2, hour |-> 9, minute |-> 30]>>

MaxReq == 3

\* no HTTP request has been answered yet
NoResponse == [payload |-> "none", status |-> "none", sent |-> ""]

DB ==
    [users |-> users, messages |-> messages, food_logs |-> food_logs,
     water_logs |-> water_logs]

Init ==
    /\ users = <<>>
    /\ messages = <<>>
    /\ food_logs = <<>>
    /\ water_logs = <<>>
    /\ clock = Instants[1]
    /\ nreq = 0
    /\ last = [phone |-> NULL, text |-> "", reply |-> "", calls |-> <<>>,
               branch |-> "none"]
    /\ webhook = <<>>
    /\ response = NoResponse

\* receive_message for a text payload: get_ai_response runs to its end
ReceiveText(phone, text, outcome) ==
    /\ nreq < MaxReq
    /\ LET r == get_ai_response(DB, phone, text, FactsOf[text], outcome, clock)
       IN  /\ users' = r.db.users
           /\ messages' = r.db.messages
           /\ food_logs' = r.db.food_logs
           /\ water_logs' = r.db.water_logs
           /\ last' = [phone |-> phone, text |-> text, reply |-> r.reply,
                       calls |-> r.calls, branch |-> r.branch]
           /\ response' = [payload |-> "text", status |-> "ok",
                           sent |-> r.reply]
    /\ nreq' = nreq + 1
    /\ UNCHANGED <<clock, webhook>>

\* time passes
Tick ==
    /\ \E i \in 1..(Len(Instants) - 1) :
           clock = Instants[i] /\ clock' = Instants[i + 1]
    /\ UNCHANGED <<users, messages, food_logs, water_logs, nreq, last,
                   webhook, response>>

Next ==
    \/ \E phone \in Phones, text \in RoutingMessages, outcome \in Outcomes :
           ReceiveText(phone, text, outcome)
    \/ Tick

Spec == Init /\ [][Next]_vars

NextOnboarding ==
    \E phone \in Phones, text \in OnboardingMessages, outcome \in Outcomes :
        ReceiveText(phone, text, outcome)

SpecOnboarding == Init /\ [][NextOnboarding]_vars

(***************************************************************************)
(* Properties                                                              *)
(***************************************************************************)
ProfileFields == {"name", "diet_preference", "regional_cuisine", "health_goal"}

\* the step handles an inbound text message
RequestStep == nreq' = nreq + 1

UserTurn(phone, text) == [phone |-> phone, role |-> "user", content |-> text]

AssistantTurn(phone, text) ==
    [phone |-> phone, role |-> "assistant", content |-> text]

\* the profile of phone before the step: the stored row, or the row that
\* get_ai_response creates for an unknown phone
ProfileBefore(phone) ==
    IF phone \in DOMAIN users THEN users[phone] ELSE NewUserRow(clock)

RequiredFieldsSet(row) ==
    Truthy(row.name) /\ Truthy(row.diet_preference) /\ Truthy(row.health_goal)

IsHelp(text) == FactsOf[text].is_help

IsWaterOnly(text) ==
    ~FactsOf[text].is_help /\ FactsOf[text].is_water /\ ~FactsOf[text].is_food

IsFoodAndWater(text) ==
    ~FactsOf[text].is_help /\ FactsOf[text].is_water /\ FactsOf[text].is_food

IsSummary(text) ==
    ~IsHelp(text) /\ ~IsWaterOnly(text) /\ FactsOf[text].is_summary

IsGeneral(text) == ~IsHelp(text) /\ ~IsWaterOnly(text) /\ ~IsSummary(text)

\* a FoodLogEntry was created for the message, and nothing else changed in
\* food_logs
FoodEntryCreated ==
    /\ Len(food_logs') = Len(food_logs) + 1
    /\ SubSeq(food_logs', 1, Len(food_logs)) = food_logs
    /\ food_logs'[Len(food_logs')].phone = last'.phone
    /\ food_logs'[Len(food_logs')].food_description = last'.text

\* C1: in every reachable state the stored onboarding_complete flag of a
\* contact key is true if and only if name, diet_preference and health_goal
\* are all set in its stored profile.
C1_CompleteIffRequiredSet ==
    \A p \in DOMAIN users :
        (users[p].onboarding_complete = 1) <=> RequiredFieldsSet(users[p])

\* C2: a request whose message is a help request makes no completion call,
\* returns the static help text and appends the user turn and exactly that
\* text as the assistant turn.
C2_HelpNeverCallsCompletion ==
    [][(RequestStep /\ detect_help_request(last'.text)) =>
          /\ Len(last'.calls) = 0
          /\ last'.reply = help_text
          /\ messages' = messages \o <<UserTurn(last'.phone, last'.text),
                                       AssistantTurn(last'.phone, help_text)>>
      ]_vars

C2_Witness ==
    /\ nreq >= 1
    /\ detect_help_request(last.text)
    /\ messages[Len(messages)] = AssistantTurn(last.phone, help_text)

\* C3: when the completion call of the general branch fails, the request
\* returns the fallback text, the completion interface was called once, and
\* only the user turn was appended.
C3_FailedCompletionFallsBack ==
    [][(RequestStep /\ IsGeneral(last'.text) /\ Len(last'.calls) > 0
            /\ ~last'.calls[1].ok) =>
          /\ last'.reply = fallback_text
          /\ Len(last'.calls) = 1
          /\ messages' = Append(messages, UserTurn(last'.phone, last'.text))
      ]_vars

C3_Witness ==
    /\ nreq >= 1
    /\ IsGeneral(last.text)
    /\ Len(last.calls) = 1
    /\ ~last.calls[1].ok
    /\ last.reply = fallback_text

\* C4: a request changes at most one of name, diet_preference,
\* regional_cuisine and health_goal in the stored profile.
C4_AtMostOneFieldPerCall ==
    [][\A p \in DOMAIN users' :
          Cardinality({f \in ProfileFields :
                          users'[p][f] # ProfileBefore(p)[f]}) <= 1
      ]_vars

\* C5: once a profile field is set, no later request changes it.
C5_FirstWriteWins ==
    [][\A p \in DOMAIN users : \A f \in ProfileFields :
          Truthy(users[p][f]) => users'[p][f] = users[p][f]
      ]_vars

\* the name was set by "call me rahul"; "vegetarian", which the fallback
\* heuristic takes for a name, was then processed and set the diet only
C5_Witness ==
    /\ nreq = 2
    /\ last.text = "vegetarian"
    /\ last.reply # fallback_text
    /\ users[last.phone].name = "Rahul"
    /\ users[last.phone].diet_preference = "vegetarian"

\* C6: once onboarding_complete is true for a contact key, no request sets
\* it back to false.
C6_CompleteIsMonotonic ==
    [][\A p \in DOMAIN users :
          users[p].onboarding_complete = 1 => users'[p].onboarding_complete = 1
      ]_vars

\* a field was written after onboarding was complete
C6_Witness ==
    /\ nreq = 3
    /\ last.text = "punjabi"
    /\ users[last.phone].regional_cuisine = "North Indian"
    /\ users[last.phone].onboarding_complete = 1

\* C7: a water-only message creates exactly one WaterLogEntry, with one
\* glass when the message has no integer, no FoodLogEntry, and makes no
\* completion call.
C7_WaterOnlyLogsOneEntry ==
    [][(RequestStep /\ IsWaterOnly(last'.text)) =>
          /\ Len(water_logs') = Len(water_logs) + 1
          /\ SubSeq(water_logs', 1, Len(water_logs)) = water_logs
          /\ water_logs'[Len(water_logs')].phone = last'.phone
          /\ (Len(FindNumbers(last'.text)) = 0
                  => water_logs'[Len(water_logs')].glasses = 1)
          /\ food_logs' = food_logs
          /\ Len(last'.calls) = 0
      ]_vars

C7_Witness ==
    /\ nreq >= 1
    /\ last.text = "paani"
    /\ Len(water_logs) >= 1
    /\ water_logs[Len(water_logs)].glasses = 1
    /\ Len(food_logs) = 0

\* C8 as stated: a non-help message in which food-log and water-log are both
\* detected creates no WaterLogEntry and a FoodLogEntry.
C8_FoodAndWaterLogsFood ==
    [][(RequestStep /\ IsFoodAndWater(last'.text)) =>
          /\ water_logs' = water_logs
          /\ FoodEntryCreated
      ]_vars

\* C8, amended: a non-help message in which food-log and water-log are both
\* detected creates no WaterLogEntry; it creates a FoodLogEntry unless it is
\* also a summary request, and then it creates none.
C8_FoodAndWaterUnlessSummary ==
    [][(RequestStep /\ IsFoodAndWater(last'.text)) =>
          /\ water_logs' = water_logs
          /\ last'.branch # "water"
          /\ IF FactsOf[last'.text].is_summary
             THEN food_logs' = food_logs
             ELSE FoodEntryCreated
      ]_vars

C8_Witness ==
    /\ nreq = 1
    /\ last.text = "had water"
    /\ Len(food_logs) = 1
    /\ food_logs[1].food_description = "had water"
    /\ Len(water_logs) = 0

\* the branch the precedence help > water-only > summary > general gives
ExpectedBranch(text) ==
    IF IsHelp(text) THEN "help"
    ELSE IF IsWaterOnly(text) THEN "water"
    ELSE IF FactsOf[text].is_summary THEN "summary"
    ELSE "general"

\* the system message of a completion call ends with the meal suggestion
\* instruction
EndsWithSuggestion(content) ==
    /\ Len(content) >= Len(meal_suggestion_instruction)
    /\ SubSeq(content, Len(content) - Len(meal_suggestion_instruction) + 1,
              Len(content)) = meal_suggestion_instruction

\* C9: every request takes the one branch the precedence gives; only the
\* water branch creates a WaterLogEntry and only the general branch, for a
\* detected food log, a FoodLogEntry (so a summary request that is also a
\* food log creates none); the help and water branches make no completion
\* call; the general branch makes one, whose context holds the meal
\* suggestion instruction exactly when a meal suggestion was detected.
C9_BranchPrecedence ==
    [][RequestStep =>
          LET text == last'.text
              b == last'.branch
          IN  /\ b = ExpectedBranch(text)
              /\ (b = "help") <=> (last'.reply = help_text)
              /\ IF b = "water"
                 THEN Len(water_logs') = Len(water_logs) + 1
                 ELSE water_logs' = water_logs
              /\ IF b = "general" /\ FactsOf[text].is_food
                 THEN FoodEntryCreated
                 ELSE food_logs' = food_logs
              /\ (b \in {"help", "water"}) => Len(last'.calls) = 0
              /\ (b = "general") =>
                    /\ Len(last'.calls) = 1
                    /\ EndsWithSuggestion(last'.calls[1].messages[1].content)
                           <=> FactsOf[text].is_suggestion
                    /\ Contains(meal_suggestion_instruction,
                                last'.calls[1].messages[1].content)
                           <=> FactsOf[text].is_suggestion
      ]_vars

\* a summary request that is also a food log, with a meal logged today
C9_Witness ==
    /\ nreq >= 2
    /\ last.text = "aaj kya khaya"
    /\ FactsOf[last.text].is_food
    /\ last.branch = "summary"
    /\ Len(last.calls) = 1
    /\ Len(food_logs) = 1

\* C10: on the summary branch with a food entry today, the fallback text is
\* never returned; when the assessment call fails, the reply is the recap
\* alone (it names every meal of today and the water total) and is appended
\* as the assistant turn.
C10_SummarySurvivesFailure ==
    [][(RequestStep /\ IsSummary(last'.text)
            /\ Len(get_today_food_logs(DB, last'.phone, clock)) > 0) =>
          LET today_food == get_today_food_logs(DB, last'.phone, clock)
              water == get_today_water(DB, last'.phone, clock)
          IN  /\ last'.reply # fallback_text
              /\ Len(last'.calls) = 1
              /\ ~last'.calls[1].ok =>
                    /\ last'.reply = TodayText(today_food, water)
                    /\ \A i \in 1..Len(today_food) :
                           Contains(today_food[i].food_description, last'.reply)
                    /\ Contains("Water: " \o ToString(water) \o " glasses",
                                last'.reply)
                    /\ messages' = messages \o
                           <<UserTurn(last'.phone, last'.text),
                             AssistantTurn(last'.phone, last'.reply)>>
      ]_vars

C10_Witness ==
    /\ nreq >= 2
    /\ IsSummary(last.text)
    /\ Len(last.calls) = 1
    /\ ~last.calls[1].ok
    /\ messages[Len(messages)] = AssistantTurn(last.phone, last.reply)
    /\ last.reply # no_meals_text



\* an assistant turn was appended for the exchange of the step
AssistantTurnAppended ==
    /\ Len(messages') = Len(messages) + 2
    /\ messages'[Len(messages')].role = "assistant"
    /\ messages'[Len(messages')].phone = last'.phone

\* C11: for every processed text message, if an assistant turn was appended
\* for the exchange, its text equals the text get_ai_response returns, also
\* when profile extraction fails after the reply was saved.
C11_TranscriptMatchesReply ==
    [][(RequestStep /\ AssistantTurnAppended) =>
          messages'[Len(messages')].content = last'.reply
      ]_vars


\* the number of user turns stored for phone
UserTurnCount(phone) ==
    Cardinality({i \in 1..Len(messages) :
                    messages[i].phone = phone /\ messages[i].role = "user"})

\* the text is a single alphabetic word of 2 to 20 characters
IsNameWord(text) ==
    /\ Split(text) = <<text>>
    /\ IsAlpha(text)
    /\ MinNameLen <= Len(text) /\ Len(text) <= MaxNameLen

\* the step handles the second-ever message of its contact key, a single
\* alphabetic word, on the general branch with a successful completion
SecondMessageIsWord ==
    /\ RequestStep
    /\ UserTurnCount(last'.phone) = 1
    /\ IsNameWord(last'.text)
    /\ last'.branch = "general"
    /\ Len(last'.calls) = 1 /\ last'.calls[1].ok

\* C12 as stated: after the second-ever message of a key, a single
\* alphabetic word handled on the general branch with a successful
\* completion, the stored name is that word, whatever the first message was.
C12_SecondMessageWordIsName ==
    [][SecondMessageIsWord => users'[last'.phone].name = last'.text]_vars

\* C12: after such a second message the stored name is that word in title
\* case, provided no name was stored for the key before the request.
C12_SecondMessageWordIsNameIfUnset ==
    [][(SecondMessageIsWord /\ ~Truthy(ProfileBefore(last'.phone).name)) =>
          users'[last'.phone].name = Title(last'.text)
      ]_vars

\* the second message "Rahul" named a contact whose first message named
\* nobody
C12_Witness ==
    /\ nreq = 2
    /\ Len(messages) = 4
    /\ messages[1].content = "i eat chicken"
    /\ last.text = "Rahul"
    /\ last.branch = "general"
    /\ users[last.phone].name = "Rahul"


(***************************************************************************)
(* Water logging: water-only messages, over two days                       *)
(***************************************************************************)
NextWater ==
    \/ \E phone \in Phones, text \in WaterMessages, outcome \in Outcomes :
           ReceiveText(phone, text, outcome)
    \/ Tick

SpecWater == Init /\ [][NextWater]_vars

\* the step was handled by the water-log handler
WaterStep == RequestStep /\ last'.branch = "water"

\* the WaterLogEntry the step created
NewWaterEntry == water_logs'[Len(water_logs')]

\* n clamped into [1, 10]
ClampGlasses(n) ==
    IF n < MIN_GLASSES THEN MIN_GLASSES
    ELSE IF n > MAX_GLASSES THEN MAX_GLASSES
    ELSE n

\* the glass count the claim expects for a message: its first integer
\* clamped into [1, 10], and 1 when it has none
ClampedGlassesOf(text) ==
    IF FindNumbers(text) = <<>> THEN 1
    ELSE ClampGlasses(IntOf(FindNumbers(text)[1]))

\* C13: the glass count stored by the water-log handler is the integer
\* parsed from the message clamped into [1,10] (below 1 stored as 1, above
\* 10 stored as 10), and 1 when the message has no integer.
C13_GlassesClamped ==
    [][WaterStep =>
          /\ Len(water_logs') = Len(water_logs) + 1
          /\ NewWaterEntry.glasses = ClampedGlassesOf(last'.text)
      ]_vars

\* today's glasses of the step's contact key, after the step
TodayGlassesAfter ==
    get_today_water([users |-> users', messages |-> messages',
                     food_logs |-> food_logs', water_logs |-> water_logs'],
                    last'.phone, clock)

\* floor(goalLiters * 4) for the step's contact key
GoalGlassesOfStep == GoalGlasses(ProfileBefore(last'.phone).water_goal_liters)

IsGoalHitReply(reply) == Contains("you've hit your goal", reply)

IsNearGoalReply(reply) == Contains("Almost at your goal of", reply)

IsRemainingReply(reply) == Contains("more to hit your goal", reply)

\* C14: with goalGlasses = floor(goalLiters * 4), 12 for 3.0 L, and total
\* = today's glasses after the new entry, the water reply is the goal-hit
\* text iff total >= goalGlasses, else the near-goal text iff total is at
\* least 70% of goalGlasses, else the remaining-count reminder.
C14_WaterReplyByGoalShare ==
    [][WaterStep =>
          LET total == TodayGlassesAfter
              goal == GoalGlassesOfStep
          IN  /\ GoalGlasses(WaterGoalDefaultTenths) = 12
              /\ IsGoalHitReply(last'.reply) <=> total >= goal
              /\ IsNearGoalReply(last'.reply) <=>
                     (total < goal /\ 10 * total >= 7 * goal)
              /\ IsRemainingReply(last'.reply) <=> 10 * total < 7 * goal
              /\ IsRemainingReply(last'.reply) =>
                     Contains("About " \o ToString(goal - total) \o " more",
                              last'.reply)
      ]_vars

\* one glass logged when the day's total was 11 hit the goal of 12
C14_Witness ==
    /\ Len(water_logs) = 3
    /\ water_logs[1].glasses = 10 /\ water_logs[2].glasses = 1
    /\ water_logs[3].glasses = 1
    /\ water_logs[1].log_date = water_logs[3].log_date
    /\ last.text = "paani"
    /\ last.branch = "water"
    /\ IsGoalHitReply(last.reply)


(***************************************************************************)
(* Time of day: the process starts at any local hour                       *)
(***************************************************************************)
Hours == 0..23

InitAtAnyHour ==
    /\ users = <<>>
    /\ messages = <<>>
    /\ food_logs = <<>>
    /\ water_logs = <<>>
    /\ clock \in {[day |-> 1, hour |-> h, minute |-> 0] : h \in Hours}
    /\ nreq = 0
    /\ last = [phone |-> NULL, text |-> "", reply |-> "", calls |-> <<>>,
               branch |-> "none"]
    /\ webhook = <<>>
    /\ response = NoResponse

NextTime ==
    \E phone \in Phones, text \in FoodMessages, outcome \in Outcomes :
        ReceiveText(phone, text, outcome)

SpecTime == InitAtAnyHour /\ [][NextTime]_vars

\* the bucket the claim gives to hour h
ClaimedPeriod(h) ==
    CASE h \in 5..7 -> "early_morning"
      [] h \in 8..10 -> "morning"
      [] h \in 11..12 -> "pre_lunch"
      [] h \in 13..14 -> "lunch"
      [] h \in 15..16 -> "afternoon"
      [] h \in 17..19 -> "evening"
      [] h \in 20..21 -> "dinner"
      [] OTHER -> "late_night"

PeriodNames ==
    {"early_morning", "morning", "pre_lunch", "lunch", "afternoon", "evening",
     "dinner", "late_night"}

\* the system message of the step's completion call
SystemContent == last'.calls[1].messages[1].content

\* C15: for every local hour h in 0..23 the period of the time context is
\* exactly one of the 8 buckets, the one whose half-open interval holds h;
\* each boundary hour belongs to the bucket that starts at it.
C15_PeriodBuckets ==
    [][(RequestStep /\ last'.branch = "general") =>
          \A name \in PeriodNames :
              Contains("| Period: " \o name \o "\n", SystemContent)
                  <=> name = ClaimedPeriod(clock.hour)
      ]_vars

\* a request at hour 22 was given the late night context
C15_Witness ==
    /\ clock.hour = 22
    /\ last.branch = "general"
    /\ Len(last.calls) = 1
    /\ Contains("IST Hour: 22:00 | Period: late_night\n",
                last.calls[1].messages[1].content)

MealNames == <<"breakfast", "lunch", "snack", "dinner">>

\* the meal a message names, NULL when it names none
ExplicitMealOf(text) ==
    IF \E k \in 1..Len(MealNames) : Contains(MealNames[k], Lower(text))
    THEN MealNames[CHOOSE k \in 1..Len(MealNames) :
                       Contains(MealNames[k], Lower(text))]
    ELSE NULL

\* C16: a FoodLogEntry created for a detected food-log message stores the
\* message text unmodified, and its meal category is the meal the message
\* names, falling back to the local hour only when it names none.
C16_ExplicitMealOrHour ==
    [][(RequestStep /\ Len(food_logs') = Len(food_logs) + 1) =>
          /\ food_logs'[Len(food_logs')].food_description = last'.text
          /\ food_logs'[Len(food_logs')].meal_type =
                 IF ExplicitMealOf(last'.text) # NULL
                 THEN ExplicitMealOf(last'.text)
                 ELSE MealTypeOfHour(clock.hour)
      ]_vars


\* the labels of the required fields that are unset in row, in the priority
\* order name, diet preference, health goal
UnsetRequiredLabels(row) ==
    PartIf(~Truthy(row.name), "name")
    \o PartIf(~Truthy(row.diet_preference),
              "diet preference (veg/non-veg/egg-only/vegan)")
    \o PartIf(~Truthy(row.health_goal), "health goal")

\* C17: whenever the context is built for a profile whose onboarding is
\* incomplete, the user-profile block contains a "Still need" marker that
\* lists exactly the unset required fields (name, diet preference, health
\* goal) in that order, and no marker once none of them is unset.
C17_StillNeedListsRequired ==
    [][(/\ RequestStep
        /\ last'.branch = "general"
        /\ ProfileBefore(last'.phone).onboarding_complete = 0) =>
          LET labels == UnsetRequiredLabels(ProfileBefore(last'.phone))
          IN  IF labels # <<>>
              THEN Contains("Still need: " \o Join(", ", labels) \o ". Ask",
                            SystemContent)
              ELSE ~Contains("Still need", SystemContent)
      ]_vars


(***************************************************************************)
(* Stored history: the process starts on a database file that already      *)
(* holds the exchanges of two contact keys                                 *)
(***************************************************************************)
PhoneA == "919800000001"

PhoneB == "919800000002"

HistoryPhones == {PhoneA, PhoneB}

HistoryMessages == {"kya khau"}

MaxStoredExchanges == 10

\* the contact key of the j-th stored exchange: every fourth is PhoneB's
ExchangePhone(j) == IF j % 4 = 0 THEN PhoneB ELSE PhoneA

\* the rows that k completed exchanges left in the messages table
RECURSIVE StoredTranscript(_)
StoredTranscript(k) ==
    IF k = 0 THEN <<>>
    ELSE StoredTranscript(k - 1)
             \o <<[phone |-> ExchangePhone(k), role |-> "user",
                   content |-> "q" \o ToString(k)],
                  [phone |-> ExchangePhone(k), role |-> "assistant",
                   content |-> "a" \o ToString(k)]>>

InitWithHistory ==
    /\ \E k \in 0..MaxStoredExchanges :
           /\ messages = StoredTranscript(k)
           /\ users = [p \in {ExchangePhone(j) : j \in 1..k} |->
                          NewUserRow(Instants[1])]
    /\ food_logs = <<>>
    /\ water_logs = <<>>
    /\ clock = Instants[1]
    /\ nreq = 0
    /\ last = [phone |-> NULL, text |-> "", reply |-> "", calls |-> <<>>,
               branch |-> "none"]
    /\ webhook = <<>>
    /\ response = NoResponse

NextHistory ==
    \E phone \in HistoryPhones, text \in HistoryMessages,
       outcome \in Outcomes :
        ReceiveText(phone, text, outcome)

SpecHistory == InitWithHistory /\ [][NextHistory]_vars

\* the turns of phone in the store when the completion call of the step is
\* made: the stored ones and the inbound user message
TurnsAtCall(phone) ==
    SelectSeq(messages \o <<UserTurn(phone, last'.text)>>,
              LAMBDA m : m.phone = phone)

\* the last k elements of seq
LastN(seq, k) == SubSeq(seq, Len(seq) - k + 1, Len(seq))

\* C18: the history handed to the completion interface on the general
\* branch is exactly the last min(15, n) stored turns of the contact key,
\* oldest first, with no turn of another key; its last element is the
\* current inbound user message.
C18_HistoryIsLastFifteen ==
    [][(RequestStep /\ last'.branch = "general") =>
          LET history == Tail(last'.calls[1].messages)
              turns == TurnsAtCall(last'.phone)
              n == Len(turns)
              k == IF n < 15 THEN n ELSE 15
              window == LastN(turns, k)
          IN  /\ Len(history) = k
              /\ \A i \in 1..k :
                     /\ history[i].role = window[i].role
                     /\ history[i].content = window[i].content
              /\ history[k] = [role |-> "user", content |-> last'.text]
      ]_vars

\* a request of a key with more than 15 stored turns, next to another
\* key's turns, was sent a history of 15
C18_Witness ==
    /\ last.branch = "general"
    /\ Len(last.calls) = 1
    /\ Len(last.calls[1].messages) = 16
    /\ Len(RowsOf(messages, last.phone)) > 16
    /\ \E i \in 1..Len(messages) : messages[i].phone # last.phone


(***************************************************************************)
(* Concurrent requests.  receive_message is a coroutine: it is suspended  *)
(* at "await request.json()", and the requests that wait there resume in   *)
(* any order.  From there to the end of get_ai_response it does not yield. *)
(* webhook lists the requests in the order the webhook received them, each *)
(* with whether it has run get_ai_response; started and seen are used      *)
(* where get_ai_response itself is interleaved: whether its first          *)
(* db.get_user(phone) was done, and what it returned.                      *)
(***************************************************************************)
ConcurrentMessages == {"call me rahul", "paani"}

\* the webhook receives a text message: the handler starts and waits for
\* the body
AcceptRequest(phone, text) ==
    /\ Len(webhook) < MaxReq
    /\ \A i \in 1..Len(webhook) :
           ~(webhook[i].phone = phone /\ webhook[i].text = text)
    /\ webhook' = Append(webhook,
                         [phone |-> phone, text |-> text, handled |-> FALSE,
                          started |-> FALSE, seen |-> <<>>])
    /\ UNCHANGED <<users, messages, food_logs, water_logs, clock, nreq, last,
                   response>>

\* the i-th received request resumes and runs get_ai_response to its end
ResumeRequest(i, outcome) ==
    /\ i \in 1..Len(webhook)
    /\ ~webhook[i].handled
    /\ LET phone == webhook[i].phone
           text == webhook[i].text
           r == get_ai_response(DB, phone, text, FactsOf[text], outcome, clock)
       IN  /\ users' = r.db.users
           /\ messages' = r.db.messages
           /\ food_logs' = r.db.food_logs
           /\ water_logs' = r.db.water_logs
           /\ last' = [phone |-> phone, text |-> text, reply |-> r.reply,
                       calls |-> r.calls, branch |-> r.branch]
           /\ response' = [payload |-> "text", status |-> "ok",
                           sent |-> r.reply]
    /\ webhook' = [webhook EXCEPT ![i].handled = TRUE]
    /\ nreq' = nreq + 1
    /\ UNCHANGED clock

NextConcurrent ==
    \/ \E phone \in HistoryPhones, text \in ConcurrentMessages :
           AcceptRequest(phone, text)
    \/ \E i \in 1..MaxReq, outcome \in Outcomes : ResumeRequest(i, outcome)

SpecConcurrent == Init /\ [][NextConcurrent]_vars

\* the stored records of phone in the four tables, before and after a step
RecordsOf(phone) ==
    [profile |-> IF phone \in DOMAIN users THEN <<users[phone]>> ELSE <<>>,
     turns |-> RowsOf(messages, phone),
     food |-> RowsOf(food_logs, phone),
     water |-> RowsOf(water_logs, phone)]

RecordsAfterOf(phone) ==
    [profile |-> IF phone \in DOMAIN users' THEN <<users'[phone]>> ELSE <<>>,
     turns |-> RowsOf(messages', phone),
     food |-> RowsOf(food_logs', phone),
     water |-> RowsOf(water_logs', phone)]

\* C19: processing a message for contact key A, under any interleaving
\* with processing for a different key B, never changes B's profile, turns,
\* food entries or water entries.
C19_OtherKeyUntouched ==
    [][RequestStep =>
          \A b \in HistoryPhones \ {last'.phone} :
              RecordsAfterOf(b) = RecordsOf(b)
      ]_vars

\* a request of one key ran while an earlier request of the other key was
\* still waiting, and the other key has stored records
C19_Witness ==
    /\ Len(webhook) = 3
    /\ webhook[1].phone = PhoneB /\ webhook[1].handled
    /\ webhook[2].phone = PhoneB /\ ~webhook[2].handled
    /\ webhook[3].phone = PhoneA /\ webhook[3].handled
    /\ last.phone = PhoneA
    /\ last.text = "call me rahul"
    /\ users[PhoneA].name = "Rahul"
    /\ PhoneB \in DOMAIN users
    /\ users[PhoneB].name = NULL
    /\ Len(RowsOf(water_logs, PhoneB)) = 1

\* the position in the store of the user turn of the i-th received request
UserTurnIndex(i) ==
    CHOOSE k \in 1..Len(messages) :
        messages[k] = UserTurn(webhook[i].phone, webhook[i].text)

\* stored turns are never modified or removed
AppendOnly ==
    /\ Len(messages') >= Len(messages)
    /\ SubSeq(messages', 1, Len(messages)) = messages

\* user turns of one key are stored in the order their messages were
\* received
OrderedByReceipt ==
    \A i, j \in 1..Len(webhook) :
        (/\ i < j
         /\ webhook[i].phone = webhook[j].phone
         /\ webhook[j].handled) =>
            (webhook[i].handled /\ UserTurnIndex(i) < UserTurnIndex(j))

\* C20: the turn store is append-only, and for two text messages m1 and m2
\* of one contact key with m1 received by the webhook before m2, the user
\* turn of m1 precedes the user turn of m2 in the store, under any
\* interleaving of the two requests.
C20_AppendOnlyInReceiptOrder ==
    [][AppendOnly]_vars /\ []OrderedByReceipt


(***************************************************************************)
(* The webhook: payloads that are not text messages                        *)
(***************************************************************************)
NonTextTypes == {"image", "audio", "sticker"}

\* the static message receive_message sends for a payload type
redirect_text(msg_type) ==
    CASE msg_type = "image" ->
             "Photo mila! Abhi sirf text se kaam chala lo - batao kya khaya, main track kar lunga!"
      [] msg_type = "audio" ->
             "Voice note support aa raha hai jaldi! Filhaal text mein batao kya khaya?"
      [] OTHER -> "Hey! Mujhe text mein batao kya khaya ya kya khana hai"

\* the non-text branches persisting their message as an assistant turn
receive_non_text_saves_turn(db, phone, msg_type) ==
    [db |-> save_message(db, phone, "assistant", redirect_text(msg_type)),
     sent |-> redirect_text(msg_type)]

\* receive_message for a message that is not text: the store after it and
\* the message sent; get_ai_response is not called
receive_non_text(db, phone, msg_type) ==
    [db |-> db, sent |-> redirect_text(msg_type)]

ReceiveNonText(phone, msg_type) ==
    /\ LET r == receive_non_text(DB, phone, msg_type)
       IN  /\ users' = r.db.users
           /\ messages' = r.db.messages
           /\ food_logs' = r.db.food_logs
           /\ water_logs' = r.db.water_logs
           /\ response' = [payload |-> msg_type, status |-> "ok",
                           sent |-> r.sent]
    /\ UNCHANGED <<clock, nreq, last, webhook>>

\* bodies that are not a message: not JSON at all, a JSON object without
\* "entry", an empty "entry" list, a value without "messages", a message
\* without "from", a text message without "text"
MalformedKinds ==
    {"invalid_json", "no_entry", "empty_entry", "no_messages", "no_from",
     "no_text_body"}

\* how receive_message ends for a malformed body: "ok" when it returns
\* {"status": "ok"}, "error" when an exception leaves the handler
malformed_status(kind) == IF kind = "invalid_json" THEN "error" ELSE "ok"

ReceiveMalformed(kind) ==
    /\ response' = [payload |-> kind, status |-> malformed_status(kind),
                    sent |-> ""]
    /\ UNCHANGED <<users, messages, food_logs, water_logs, clock, nreq, last,
                   webhook>>

WebhookMessages == {"call me rahul", "paani"}

NextWebhook ==
    \/ \E phone \in Phones, text \in WebhookMessages, outcome \in Outcomes :
           ReceiveText(phone, text, outcome)
    \/ \E phone \in Phones, msg_type \in NonTextTypes :
           ReceiveNonText(phone, msg_type)
    \/ \E kind \in MalformedKinds : ReceiveMalformed(kind)

SpecWebhook == Init /\ [][NextWebhook]_vars

\* the step answers a payload of one of the given kinds
Answers(kinds) == response' # response /\ response'.payload \in kinds

StoreUnchanged == UNCHANGED <<users, messages, food_logs, water_logs>>

\* C21: a non-text inbound payload is answered with a static redirect
\* message without invoking the orchestrator: no completion call is made
\* and no profile, turn, food or water record is created or changed.
C21_NonTextOnlyRedirects ==
    [][Answers(NonTextTypes) =>
          /\ response'.sent = redirect_text(response'.payload)
          /\ response'.status = "ok"
          /\ StoreUnchanged
          /\ UNCHANGED <<last, nreq>>
      ]_vars

\* an image arrived for a contact with a stored profile and turns
C21_Witness ==
    /\ response.payload = "image"
    /\ Contains("Photo mila!", response.sent)
    /\ Len(messages) = 2
    /\ \E p \in DOMAIN users : users[p].name = "Rahul"

\* C22: for every malformed inbound payload the webhook handler never
\* crashes: it acknowledges with the ok status and leaves all stored state
\* unchanged.
C22_MalformedAcknowledged ==
    [][Answers(MalformedKinds) =>
          /\ response'.status = "ok"
          /\ StoreUnchanged
      ]_vars


(***************************************************************************)
(* Racing requests of one contact key.  With several worker processes on  *)
(* one database file a request can run between another request's first    *)
(* db.get_user(phone) and the rest of its get_ai_response.                 *)
(***************************************************************************)
\* a text message is received and its request reads the user row
StartRequest(phone, text) ==
    /\ Len(webhook) < MaxReq
    /\ webhook' = Append(webhook,
                         [phone |-> phone, text |-> text, handled |-> FALSE,
                          started |-> TRUE, seen |-> get_user(DB, phone)])
    /\ UNCHANGED <<users, messages, food_logs, water_logs, clock, nreq, last,
                   response>>

\* the i-th received request runs the rest of get_ai_response
FinishRequest(i, outcome) ==
    /\ i \in 1..Len(webhook)
    /\ webhook[i].started /\ ~webhook[i].handled
    /\ LET phone == webhook[i].phone
           text == webhook[i].text
           r == get_ai_response_after_lookup(DB, phone, text, FactsOf[text],
                                             outcome, clock, webhook[i].seen)
       IN  /\ users' = r.db.users
           /\ messages' = r.db.messages
           /\ food_logs' = r.db.food_logs
           /\ water_logs' = r.db.water_logs
           /\ last' = [phone |-> phone, text |-> text, reply |-> r.reply,
                       calls |-> r.calls, branch |-> r.branch]
           /\ response' = [payload |-> "text", status |-> "ok",
                           sent |-> r.reply]
    /\ webhook' = [webhook EXCEPT ![i].handled = TRUE]
    /\ nreq' = nreq + 1
    /\ UNCHANGED clock

NextRace ==
    \/ \E phone \in Phones, text \in RaceMessages : StartRequest(phone, text)
    \/ \E i \in 1..MaxReq, outcome \in Outcomes : FinishRequest(i, outcome)

SpecRace == Init /\ [][NextRace]_vars

\* the profile extractor ran in the step
ExtractorRan ==
    /\ last'.branch = "general"
    /\ Len(last'.calls) = 1
    /\ last'.calls[1].ok

StoredColumns ==
    {"name", "diet_preference", "regional_cuisine", "allergies", "health_goal",
     "activity_level", "water_goal_liters", "onboarding_complete"}

\* the columns the profile extractor can write
ExtractedColumns == ProfileFields \cup {"onboarding_complete"}

\* the profile the claim expects for a new contact key: hydration goal 3.0,
\* onboarding not complete, everything else unset
ExpectedNewProfile(column) ==
    CASE column = "water_goal_liters" -> 30
      [] column = "onboarding_complete" -> 0
      [] OTHER -> NULL

\* C23: after processing any text message of contact key k a profile for k
\* exists; for an unknown key it is created with name, diet, cuisine, goal
\* and allergies unset, hydration goal 3.0 and onboarding_complete false;
\* for a known key, also when two first messages of the key race, creation
\* changes no existing field.
C23_ProfileEnsured ==
    [][RequestStep =>
          LET k == last'.phone
              untouched == IF ExtractorRan
                           THEN StoredColumns \ ExtractedColumns
                           ELSE StoredColumns
          IN  /\ k \in DOMAIN users'
              /\ k \notin DOMAIN users =>
                     \A c \in untouched :
                         users'[k][c] = ExpectedNewProfile(c)
              /\ k \in DOMAIN users =>
                     \A c \in untouched : users'[k][c] = users[k][c]
      ]_vars

\* two first messages of a key raced: both read "no user", the first to
\* finish named the contact, and the second left the name in place
C23_Witness ==
    /\ Len(webhook) = 2
    /\ \A i \in 1..2 :
           webhook[i].started /\ webhook[i].handled /\ webhook[i].seen = <<>>
    /\ last.text = "paani"
    /\ \E p \in DOMAIN users : users[p].name = "Rahul"

\* C27: under any interleaving of two requests of one contact key that both
\* write profile fields, whenever onboarding_complete is true in the store,
\* name, diet_preference and health_goal are all set in the store.
C27_CompleteImpliesRequiredSet ==
    \A p \in DOMAIN users :
        users[p].onboarding_complete = 1 =>
            /\ users[p].name # NULL
            /\ users[p].diet_preference # NULL
            /\ users[p].health_goal # NULL

\* two requests read the same profile, with a name only, before either
\* finished; one wrote the diet, the other the goal, and the profile is
\* complete
C27_Witness ==
    /\ \E i, j \in 1..Len(webhook) :
           /\ webhook[i].text = "vegetarian"
           /\ webhook[j].text = "want weight loss"
           /\ \A n \in {i, j} :
                  /\ webhook[n].handled
                  /\ webhook[n].seen # <<>>
                  /\ webhook[n].seen[1].name = "Rahul"
                  /\ webhook[n].seen[1].diet_preference = NULL
                  /\ webhook[n].seen[1].health_goal = NULL
    /\ \E p \in DOMAIN users : users[p].onboarding_complete = 1

\* C24: the conversation history sent to the completion interface strictly
\* alternates user and assistant roles after any sequence of processed
\* messages, including sequences in which an earlier completion call failed.
C24_HistoryAlternates ==
    [][(RequestStep /\ last'.branch = "general") =>
          LET history == Tail(last'.calls[1].messages)
          IN  \A i \in 1..(Len(history) - 1) :
                  history[i].role # history[i + 1].role
      ]_vars

\* the step's request wrote a name that no trigger phrase produced
FallbackApplied ==
    /\ ProfileBefore(last'.phone).name = NULL
    /\ FactsOf[last'.text].name_scan.kind = "none"
    /\ users'[last'.phone].name # NULL

\* name is unset, no trigger phrase produced a name, the message is short
\* and alphabetic, and count is at most 4
FallbackEligible(count) ==
    /\ ProfileBefore(last'.phone).name = NULL
    /\ FactsOf[last'.text].name_scan.kind = "none"
    /\ FactsOf[last'.text].fallback_name # NULL
    /\ count <= MaxFallbackMsgCount

\* C25 as stated: the name fallback is applied to an inbound message exactly
\* when name is unset, no trigger phrase produced a name, the message is
\* short and alphabetic, and the number of messages the user has sent so
\* far, the current one included, is at most 4.
C25_FallbackByUserMessages ==
    [][(RequestStep /\ ExtractorRan) =>
          (FallbackApplied <=>
               FallbackEligible(UserTurnCount(last'.phone) + 1))
      ]_vars

\* C25: the name fallback is applied exactly when name is unset, no trigger
\* phrase produced a name, the message is short and alphabetic, and the
\* number of turns stored for the key, user and assistant ones, the current
\* message and its reply included, is at most 4.
C25_FallbackByStoredTurns ==
    [][(RequestStep /\ ExtractorRan) =>
          (FallbackApplied <=>
               FallbackEligible(Len(RowsOf(messages', last'.phone))))
      ]_vars

\* the third user message "Rahul" became the name because the two earlier
\* requests stored no reply
C25_Witness ==
    /\ nreq = 3
    /\ Len(messages) = 4
    /\ last.text = "Rahul"
    /\ last.branch = "general"
    /\ users[last.phone].name = "Rahul"

\* the onboarding state of a profile row
OnboardingStage(row) ==
    IF row.onboarding_complete = 1 THEN "COMPLETE"
    ELSE IF ~Truthy(row.name) THEN "NEW"
    ELSE IF ~Truthy(row.diet_preference) THEN "AWAITING_DIET"
    ELSE IF ~Truthy(row.health_goal) THEN "AWAITING_GOAL"
    ELSE "INCOMPLETE"

\* C26: when name, diet preference and health goal are extracted in that
\* order over successive messages of one contact key, the profile passes
\* NEW -> AWAITING_DIET -> AWAITING_GOAL, and onboarding_complete becomes
\* true in the request that sets the health goal, whether or not regional
\* cuisine was ever set.
C26_OnboardingStages ==
    [][RequestStep =>
          LET before == ProfileBefore(last'.phone)
              after == users'[last'.phone]
          IN  /\ (/\ OnboardingStage(before) = "NEW"
                  /\ Truthy(after.name)
                  /\ ~Truthy(after.diet_preference))
                 => OnboardingStage(after) = "AWAITING_DIET"
              /\ (/\ OnboardingStage(before) = "AWAITING_DIET"
                  /\ Truthy(after.diet_preference)
                  /\ ~Truthy(after.health_goal))
                 => OnboardingStage(after) = "AWAITING_GOAL"
              /\ (/\ OnboardingStage(before) = "AWAITING_GOAL"
                  /\ Truthy(after.health_goal))
                 => after.onboarding_complete = 1
      ]_vars

\* name, diet and goal were given in three successive messages, the profile
\* is complete and no regional cuisine is stored
C26_Witness ==
    /\ nreq = 3
    /\ Len(messages) = 6
    /\ messages[1].content = "call me rahul"
    /\ messages[3].content = "vegetarian"
    /\ messages[5].content = "want weight loss"
    /\ \E p \in DOMAIN users :
           /\ users[p].onboarding_complete = 1
           /\ users[p].regional_cuisine = NULL

(***************************************************************************)
(* Food reports over two days                                              *)
(***************************************************************************)
NextFood ==
    \/ \E phone \in Phones, text \in FoodMessages, outcome \in Outcomes :
           ReceiveText(phone, text, outcome)
    \/ Tick

SpecFood == Init /\ [][NextFood]_vars

\* the line of the today's-food-log block for a stored entry
FoodLineOf(entry) ==
    "- " \o MealTitle(entry.meal_type) \o " (" \o entry.meal_time \o "): "
        \o entry.food_description

\* text ends with suffix
EndsWithText(text, suffix) ==
    /\ Len(text) >= Len(suffix)
    /\ SubSeq(text, Len(text) - Len(suffix) + 1, Len(text)) = suffix

\* what follows the today's-food-log block in the context of a food report:
\* the hydration part and the instructions
AfterFoodBlock ==
    "\n" \o build_water_context(TodayGlassesAfter,
                                ProfileBefore(last'.phone).water_goal_liters)
        \o "\n" \o food_log_instruction
        \o (IF FactsOf[last'.text].is_suggestion
            THEN "\n" \o meal_suggestion_instruction ELSE "")

NextFrame ==
    \E phone \in Phones, text \in FrameMessages, outcome \in Outcomes :
        ReceiveText(phone, text, outcome)

SpecFrame == Init /\ [][NextFrame]_vars

\* the step changed name, diet_preference, regional_cuisine, health_goal or
\* onboarding_complete of the request's contact key
ProfileChanged ==
    \E c \in ExtractedColumns :
        users'[last'.phone][c] # ProfileBefore(last'.phone)[c]

\* the last stored turn is the assistant turn with the returned reply
ReplyPersisted ==
    /\ messages' # <<>>
    /\ messages'[Len(messages')] = AssistantTurn(last'.phone, last'.reply)

\* C29: profile fields change only on the general branch after a successful
\* completion and after the reply was persisted; requests handled by the
\* help, water-only or summary branch, and general-branch requests whose
\* completion call failed, leave name, diet_preference, regional_cuisine,
\* health_goal and onboarding_complete unchanged.
C29_ProfileFrame ==
    [][RequestStep =>
          /\ ProfileChanged =>
                 /\ last'.branch = "general"
                 /\ last'.calls[1].ok
                 /\ ReplyPersisted
          /\ (\/ last'.branch \in {"help", "water", "summary"}
              \/ last'.branch = "general" /\ ~last'.calls[1].ok)
             => ~ProfileChanged
      ]_vars

\* a diet message whose completion call failed left the diet of a named
\* contact unset
C29_Witness ==
    /\ last.text = "vegetarian"
    /\ last.branch = "general"
    /\ ~last.calls[1].ok
    /\ \E p \in DOMAIN users :
           users[p].name = "Rahul" /\ users[p].diet_preference = NULL


(***************************************************************************)
(* Water logs of two contact keys over two days, with general requests    *)
(* that are sent the hydration context                                     *)
(***************************************************************************)
NextHydration ==
    \/ \E phone \in HistoryPhones, text \in HydrationMessages,
          outcome \in Outcomes :
           ReceiveText(phone, text, outcome)
    \/ Tick

SpecHydration == Init /\ [][NextHydration]_vars

\* the sum of the glass counts of the first n entries of logs that belong to
\* phone and date
RECURSIVE DayTotal(_, _, _, _)
DayTotal(logs, n, phone, date) ==
    IF n = 0 THEN 0
    ELSE DayTotal(logs, n - 1, phone, date)
             + (IF logs[n].phone = phone /\ logs[n].log_date = date
                THEN logs[n].glasses ELSE 0)

\* the day's total of the step's contact key after the step
DayTotalAfter ==
    DayTotal(water_logs', Len(water_logs'), last'.phone, today_ist(clock))

\* the step reports the day's total: in the reply of the water-log handler,
\* and in the hydration context of the general branch
ReportsDayTotal ==
    /\ last'.branch = "water" =>
           Contains(" " \o ToString(DayTotalAfter) \o " glasses", last'.reply)
    /\ last'.branch = "general" =>
           Contains("[HYDRATION] Water today: " \o ToString(DayTotalAfter)
                        \o " glasses", SystemContent)

\* entries are never changed after creation
WaterLogsKept ==
    /\ Len(water_logs') >= Len(water_logs)
    /\ SubSeq(water_logs', 1, Len(water_logs)) = water_logs

\* C30: in every reachable state every WaterLogEntry created by message
\* processing has a glass count in 1..10; entries are never changed after
\* creation; and the day's total reported in the reply and in the hydration
\* context equals the sum of the glass counts of that contact key's entries
\* for the current local date, 0 when there are none.
C30_WaterLogTotals ==
    /\ [](\A i \in 1..Len(water_logs) :
             water_logs[i].glasses \in MIN_GLASSES..MAX_GLASSES)
    /\ [][WaterLogsKept /\ (RequestStep => ReportsDayTotal)]_vars

\* a general request on the second day was told 3 glasses: the key's entry of
\* that day, not the one of the day before
C30_Witness ==
    /\ Len(water_logs) = 2
    /\ water_logs[1].phone = water_logs[2].phone
    /\ water_logs[1].log_date # water_logs[2].log_date
    /\ water_logs[1].glasses = 1
    /\ last.text = "kya khau"
    /\ last.phone = water_logs[2].phone
    /\ Contains("Water today: 3 glasses", last.calls[1].messages[1].content)


(***************************************************************************)
(* Long completion replies                                                 *)
(***************************************************************************)
\* s * n
RECURSIVE Repeat(_, _)
Repeat(s, n) ==
    IF n = 0 THEN ""
    ELSE IF n % 2 = 0 THEN LET half == Repeat(s, n \div 2) IN half \o half
    ELSE s \o Repeat(s, n - 1)

\* raw replies around the maximum length: words without any sentence end,
\* sentences, paragraphs of sentences, and a reply of exactly the maximum
LongReplies ==
    {Repeat("rotis ", 700),
     Repeat("Eat dal. ", 500),
     Repeat("Eat dal. ", 300) \o "\n\n" \o Repeat("Eat dal. ", 300),
     Repeat("Eat dal. ", 444) \o "Done"}

\* the post-processed text of every long reply, computed once
CleanedLongOf == [c \in LongReplies |-> clean_response(Strip(c))]

LongOutcomes ==
    {[ok |-> FALSE, content |-> "", cleaned |-> ""]}
    \cup {[ok |-> TRUE, content |-> c, cleaned |-> CleanedLongOf[c]] :
              c \in LongReplies}

NextLongReply ==
    \E phone \in Phones, text \in HistoryMessages, outcome \in LongOutcomes :
        ReceiveText(phone, text, outcome)

SpecLongReply == Init /\ [][NextLongReply]_vars

\* the first n characters of text end at a paragraph break of text
AtParagraphBreak(text, n) == SubSeq(text, n + 1, n + 2) = "\n\n"

\* the first n characters of text end with a sentence end of text
AtSentenceEnd(text, n) ==
    /\ n >= 1
    /\ CharAt(text, n) \in {".", "!", "?"}
    /\ n = Len(text) \/ CharAt(text, n + 1) \in Whitespace

\* the first n characters of text end in the middle of a word of text
MidWord(text, n) ==
    /\ 1 <= n /\ n < Len(text)
    /\ IsLetter(CharAt(text, n))
    /\ IsLetter(CharAt(text, n + 1))

\* what the claim says of the post-processed reply out of the raw reply raw
TruncatedAtBoundary(raw, out) ==
    LET n == Len(out)
    IN  /\ out = SubSeq(raw, 1, n)
        /\ IF Len(raw) > MaxReplyLen
           THEN /\ n <= MaxReplyLen
                /\ AtParagraphBreak(raw, n) \/ AtSentenceEnd(raw, n)
                /\ ~MidWord(raw, n)
           ELSE n = Len(raw)

\* C31: for every raw completion reply longer than the maximum length (4000
\* characters) the post-processed reply is at most that length and ends at
\* a paragraph break or at a sentence end of the original text, never in the
\* middle of a word; a reply within the limit is not truncated.
C31_TruncatesAtBoundary ==
    [][(RequestStep /\ last'.branch = "general" /\ last'.calls[1].ok) =>
          \A c \in LongReplies :
              last'.reply = CleanedLongOf[c] =>
                  TruncatedAtBoundary(Strip(c), last'.reply)
      ]_vars


\* the number of turns of a role stored for phone
TurnCount(phone, role) ==
    Len(SelectSeq(messages, LAMBDA m : m.phone = phone /\ m.role = role))

\* the turns the step appended
AppendedTurns == SubSeq(messages', Len(messages) + 1, Len(messages'))

\* the step kept the stored turns, appended the user turn of its message
\* first, and after it no turn or one assistant turn of the same key
OneUserTurnThenReply ==
    /\ SubSeq(messages', 1, Len(messages)) = messages
    /\ Len(AppendedTurns) \in {1, 2}
    /\ AppendedTurns[1] = UserTurn(last'.phone, last'.text)
    /\ Len(AppendedTurns) = 2 =>
           /\ AppendedTurns[2].role = "assistant"
           /\ AppendedTurns[2].phone = last'.phone

\* C32: every processed inbound text message appends exactly one user turn
\* and at most one assistant turn, the assistant turn being missing exactly
\* when the request ended in the fallback; hence the number of assistant
\* turns stored for a contact key never exceeds its number of user turns,
\* and they are equal iff no request ended in the fallback or an error.
C32_AssistantTurnsFollowUserTurns ==
    /\ [](\A p \in Phones : TurnCount(p, "assistant") <= TurnCount(p, "user"))
    /\ [][RequestStep =>
             /\ OneUserTurnThenReply
             /\ Len(AppendedTurns) = 2 <=> last'.reply # fallback_text
         ]_vars


\* the step appended one FoodLogEntry: the message of the request, for the
\* request's contact key and the current local date
FoodEntryAppended ==
    /\ Len(food_logs') = Len(food_logs) + 1
    /\ SubSeq(food_logs', 1, Len(food_logs)) = food_logs
    /\ food_logs'[Len(food_logs')].phone = last'.phone
    /\ food_logs'[Len(food_logs')].food_description = last'.text
    /\ food_logs'[Len(food_logs')].meal_date = today_ist(clock)

\* C33: a food-log message whose completion call fails still leaves its
\* user turn and its FoodLogEntry stored, nothing is rolled back; so when
\* the user resends the same message after the fallback, a second
\* FoodLogEntry with the same description is created for that day.
C33_FailedFoodLogIsKept ==
    [][(RequestStep /\ last'.branch = "general"
            /\ FactsOf[last'.text].is_food) =>
          /\ FoodEntryAppended
          /\ ~last'.calls[1].ok =>
                 /\ last'.reply = fallback_text
                 /\ messages' =
                        Append(messages, UserTurn(last'.phone, last'.text))
      ]_vars

\* "had poha" was sent, answered with the fallback and sent again: two
\* entries of the same day with that description
C33_Witness ==
    /\ nreq = 2
    /\ Len(messages) = 3
    /\ messages[1] = messages[2]
    /\ messages[1].content = "had poha"
    /\ Len(food_logs) = 2
    /\ food_logs[1].food_description = "had poha"
    /\ food_logs[2].food_description = "had poha"
    /\ food_logs[1].meal_date = food_logs[2].meal_date


\* the contact key of the step has no food entry for the current local date
NoFoodToday ==
    \A i \in 1..Len(food_logs) :
        ~(/\ food_logs[i].phone = last'.phone
          /\ food_logs[i].meal_date = today_ist(clock))

ProfileLabel(field) ==
    CASE field = "name" -> "Name: "
      [] field = "diet_preference" -> "Diet: "
      [] field = "regional_cuisine" -> "Regional cuisine: "
      [] field = "health_goal" -> "Goal: "

\* the line of the user-profile block for a field that is not set: none,
\* and for the name the line that says it is unknown
ShownAsUnset(field, content) ==
    IF field = "name"
    THEN Contains("\nName: Unknown (ask for their name)\n", content)
    ELSE ~Contains("\n" \o ProfileLabel(field), content)

\* C35: the user-profile block of the context sent for a message is built
\* from the profile snapshot read at the start of that request, before
\* extraction: a field first extracted from message k is absent from the
\* context of message k and appears in the context no earlier than message
\* k+1.
C35_ContextShowsSnapshot ==
    [][(RequestStep /\ last'.branch = "general") =>
          \A f \in ProfileFields :
              LET before == ProfileBefore(last'.phone)[f]
              IN  IF before = NULL
                  THEN ShownAsUnset(f, SystemContent)
                  ELSE Contains("\n" \o ProfileLabel(f) \o before \o "\n",
                                SystemContent)
      ]_vars

\* the diet was extracted from "vegetarian": the context of that message
\* names the contact and has no diet line
C35_Witness ==
    /\ last.text = "vegetarian"
    /\ last.branch = "general"
    /\ \E p \in DOMAIN users :
           users[p].name = "Rahul" /\ users[p].diet_preference = "vegetarian"
    /\ Contains("\nName: Rahul\n", last.calls[1].messages[1].content)
    /\ ~Contains("\nDiet: ", last.calls[1].messages[1].content)

=============================================================================
